---------------------------- MODULE Spec2Model ----------------------------
(***************************************************************************)
(* Host-discovery engine of zond: target router, the three scanner loops   *)
(* (Local, Routed, Handshake), the hostname resolver and the orchestrator  *)
(* `discover`.                                                             *)
(*                                                                         *)
(* Addresses.  An IpAddr is a record [v, a]: v is the family (4 or 6) and  *)
(* a the address as a number.  The IPv4 space is scaled down to            *)
(* 0 .. MaxV4 (MaxV4 plays the role of 255.255.255.255).  The IPv6         *)
(* space is a handful of link-local and global addresses.                  *)
(* Time is a global clock `now` in milliseconds.                           *)
(***************************************************************************)
EXTENDS Integers, Sequences, FiniteSets, TLC

\* ------------------------------------------------------------------ bounds

\* Highest IPv4 address of the scaled address space.
MaxV4 == 7
\* Most ranges in a target collection handed to the router.
MaxRanges == 2

\* --------------------------------------------------------------- addresses

V4(n) == [v |-> 4, a |-> n]
V6(n) == [v |-> 6, a |-> n]
\* "no address": Option::None of an IpAddr
NoIp == [v |-> 0, a |-> 0]

is_ipv4(ip) == ip.v = 4
is_ipv6(ip) == ip.v = 6

\* fe80::/10 addresses of the model
V6LinkLocal == {V6(1), V6(2)}
\* 2000::/3 addresses of the model
V6Global == {V6(3)}
V6All == V6LinkLocal \cup V6Global

is_unicast_link_local(ip) == ip \in V6LinkLocal
is_global_unicast(ip) == ip \in V6Global

V4All == {V4(n) : n \in 0..MaxV4}
AllIps == V4All \cup V6All

\* ---------------------------------------------------------------- Ipv4Range

Ipv4Range_new(s, e) ==
    IF s <= e THEN [start_addr |-> s, end_addr |-> e]
              ELSE [start_addr |-> e, end_addr |-> s]

\* the addresses to_iter() yields, as a set
RangeIps(r) == {V4(n) : n \in r.start_addr..r.end_addr}

Ipv4Range_contains(r, ip) ==
    is_ipv4(ip) /\ ip.a >= r.start_addr /\ ip.a <= r.end_addr

\* u32 arithmetic of the scaled address space: values wrap at MaxV4 + 1
WrapAddr(x) == x % (MaxV4 + 1)

\* (e_u32 - s_u32) + 1 does not fit u32: a panic where overflow checks are on
Ipv4Range_len_overflows(r) ==
    r.end_addr >= r.start_addr /\ (r.end_addr - r.start_addr) + 1 > MaxV4

Ipv4Range_len(r) ==
    IF r.end_addr >= r.start_addr
    THEN WrapAddr((r.end_addr - r.start_addr) + 1)
    ELSE 0

\* ------------------------------------------------------------- IpCollection

IpCollection_new == [ranges |-> <<>>, singles |-> {}]

add_single(c, ip) == [c EXCEPT !.singles = @ \cup {ip}]
add_range(c, r) == [c EXCEPT !.ranges = Append(@, r)]

RECURSIVE SumRangeLens(_)
SumRangeLens(rs) ==
    IF rs = <<>> THEN 0 ELSE Ipv4Range_len(Head(rs)) + SumRangeLens(Tail(rs))

IpCollection_len(c) == SumRangeLens(c.ranges) + Cardinality(c.singles)

\* extend: the other's ranges are appended, its singles inserted
extend(c, other) ==
    [ranges |-> c.ranges \o other.ranges, singles |-> c.singles \cup other.singles]

IpCollection_is_empty(c) == c.ranges = <<>> /\ c.singles = {}

IpCollection_contains(c, ip) ==
    \/ ip \in c.singles
    \/ /\ is_ipv4(ip)
       /\ \E i \in 1..Len(c.ranges) : Ipv4Range_contains(c.ranges[i], ip)

\* every address a collection denotes
CollIps(c) == c.singles \cup UNION {RangeIps(c.ranges[i]) : i \in 1..Len(c.ranges)}

\* stable insertion of r into a list sorted by start_addr (sort_by_key is stable)
RECURSIVE InsertByStart(_, _)
InsertByStart(sorted, r) ==
    IF sorted = <<>> THEN <<r>>
    ELSE IF Head(sorted).start_addr <= r.start_addr
         THEN <<Head(sorted)>> \o InsertByStart(Tail(sorted), r)
         ELSE <<r>> \o sorted

RECURSIVE SortByStart(_)
SortByStart(rs) ==
    IF rs = <<>> THEN <<>>
    ELSE InsertByStart(SortByStart(SubSeq(rs, 1, Len(rs) - 1)), rs[Len(rs)])

\* u32::saturating_add(1) in the scaled address space
\* (mutation of saturating_add1) the addition wraps
wrapping_add1(x) == (x + 1) % (MaxV4 + 1)

saturating_add1(x) == IF x >= MaxV4 THEN MaxV4 ELSE x + 1

\* (mutation of MergeLoop) current.end_addr is overwritten without comparing
RECURSIVE MergeLoopOverwritingEnd(_, _, _)
MergeLoopOverwritingEnd(merged, current, rest) ==
    IF rest = <<>> THEN Append(merged, current)
    ELSE LET next == Head(rest) IN
         IF next.start_addr <= saturating_add1(current.end_addr)
         THEN MergeLoopOverwritingEnd(merged, [current EXCEPT !.end_addr = next.end_addr],
                                      Tail(rest))
         ELSE MergeLoopOverwritingEnd(Append(merged, current), next, Tail(rest))

\* the merge loop of compact(): `merged` so far, `current`, the ranges left
RECURSIVE MergeLoop(_, _, _)
MergeLoop(merged, current, rest) ==
    IF rest = <<>> THEN Append(merged, current)
    ELSE LET next == Head(rest) IN
         IF next.start_addr <= saturating_add1(current.end_addr)
         THEN MergeLoop(merged,
                        IF next.end_addr > current.end_addr
                        THEN [current EXCEPT !.end_addr = next.end_addr]
                        ELSE current,
                        Tail(rest))
         ELSE MergeLoop(Append(merged, current), next, Tail(rest))

\* a set of single-address ranges as a list (order is irrelevant: the list is
\* sorted right after, and the singles have pairwise distinct starts)
RECURSIVE SinglesAsRanges(_)
SinglesAsRanges(S) ==
    IF S = {} THEN <<>>
    ELSE LET ip == CHOOSE x \in S : \A y \in S : x.a <= y.a
         IN <<Ipv4Range_new(ip.a, ip.a)>> \o SinglesAsRanges(S \ {ip})

compact(c) ==
    LET v4_singles == {ip \in c.singles : is_ipv4(ip)}
        kept == {ip \in c.singles : ~is_ipv4(ip)}
        ranges == SortByStart(c.ranges \o SinglesAsRanges(v4_singles))
    IN IF ranges = <<>>
       THEN [ranges |-> <<>>, singles |-> kept]
       ELSE [ranges |-> MergeLoop(<<>>, ranges[1], Tail(ranges)), singles |-> kept]


\* -------------------------------------------------------------- interfaces

\* an IpNetwork: the interface's own address and the addresses of its subnet
Net4(own, lo, hi) == [ip |-> V4(own), members |-> {V4(n) : n \in lo..hi}]
Net6(own, members) == [ip |-> own, members |-> members]

IpNetwork_contains(net, ip) == ip \in net.members

\* what datalink::interfaces() returns: a loopback interface that owns the top
\* address, a wired interface with an IPv4 subnet and a link-local address, and
\* a second interface with its own IPv4 subnet
IfTableDisjoint ==
    << [name |-> "lo", up |-> TRUE, loopback |-> TRUE, mac |-> "none",
        ips |-> <<Net4(7, 7, 7)>>],
       [name |-> "eth0", up |-> TRUE, loopback |-> FALSE, mac |-> "m0",
        ips |-> <<Net4(1, 0, 3), Net6(V6(1), V6LinkLocal)>>],
       [name |-> "wlan0", up |-> TRUE, loopback |-> FALSE, mac |-> "m1",
        ips |-> <<Net4(5, 4, 5)>>] >>

\* the same host with the second interface on a supernet of the first's subnet
\* and one interface that is down
IfTableOverlap ==
    << [name |-> "eth0", up |-> TRUE, loopback |-> FALSE, mac |-> "m0",
        ips |-> <<Net4(1, 0, 3), Net6(V6(1), V6LinkLocal)>>],
       [name |-> "wlan0", up |-> TRUE, loopback |-> FALSE, mac |-> "m1",
        ips |-> <<Net4(5, 0, 5)>>],
       [name |-> "tun0", up |-> FALSE, loopback |-> FALSE, mac |-> "none",
        ips |-> <<Net4(6, 6, 7)>>] >>

IfTables == {IfTableDisjoint, IfTableOverlap}

\* the interfaces map_ips_to_interfaces works with
UsableInterfaces(table) ==
    SelectSeq(table, LAMBDA i : i.up /\ ~i.loopback /\ i.ips # <<>>)

\* every address configured on some interface of the table
TableAddrs(table) ==
    UNION {{table[i].ips[j].ip : j \in 1..Len(table[i].ips)} : i \in 1..Len(table)}

\* ip_to_idx: later interfaces overwrite earlier ones (HashMap collect)
ip_to_idx(ifs, src) ==
    LET hits == {i \in 1..Len(ifs) : \E j \in 1..Len(ifs[i].ips) : ifs[i].ips[j].ip = src}
    IN IF hits = {} THEN 0 ELSE CHOOSE i \in hits : \A k \in hits : k <= i

\* index of the first interface with a same-family subnet containing target, or 0
find_local_index(ifs, target) ==
    LET hits == {i \in 1..Len(ifs) :
                    \E j \in 1..Len(ifs[i].ips) :
                        /\ ifs[i].ips[j].ip.v = target.v
                        /\ IpNetwork_contains(ifs[i].ips[j], target)}
    IN IF hits = {} THEN 0 ELSE CHOOSE i \in hits : \A k \in hits : i <= k

\* (mutation of RangeOwner) a range is owned as soon as its start lies in a subnet
RangeOwnerByStart(ifs, r) ==
    LET hits == {i \in 1..Len(ifs) :
                    \E j \in 1..Len(ifs[i].ips) :
                        IpNetwork_contains(ifs[i].ips[j], V4(r.start_addr))}
    IN IF hits = {} THEN 0 ELSE CHOOSE i \in hits : \A k \in hits : i <= k

\* owner_idx of a range: first interface with ONE subnet containing both ends, or 0
RangeOwner(ifs, r) ==
    LET hits == {i \in 1..Len(ifs) :
                    \E j \in 1..Len(ifs[i].ips) :
                        /\ IpNetwork_contains(ifs[i].ips[j], V4(r.start_addr))
                        /\ IpNetwork_contains(ifs[i].ips[j], V4(r.end_addr))}
    IN IF hits = {} THEN 0 ELSE CHOOSE i \in hits : \A k \in hits : i <= k

\* (mutation of RouterExploded) only the two ends of an unowned range are re-processed
RouterExplodedEndpoints(ifs, c) ==
    UNION {{V4(c.ranges[i].start_addr), V4(c.ranges[i].end_addr)} :
             i \in {k \in 1..Len(c.ranges) : RangeOwner(ifs, c.ranges[k]) = 0}}

\* the addresses of the ranges no interface owns: they are re-processed as singles
RouterExploded(ifs, c) ==
    UNION {RangeIps(c.ranges[i]) :
             i \in {k \in 1..Len(c.ranges) : RangeOwner(ifs, c.ranges[k]) = 0}}

\* the (index, route type) a single is given; kernel[ip] is the source address
\* the kernel selects for a connected UDP socket to ip (NoIp: bind/connect failed)
RouteOfSingle(ifs, kernel, ip) ==
    LET li == find_local_index(ifs, ip) IN
    IF li # 0 THEN <<li, "Local">>
    ELSE IF kernel[ip] # NoIp /\ ip_to_idx(ifs, kernel[ip]) # 0
         THEN <<ip_to_idx(ifs, kernel[ip]), "Routed">>
         ELSE <<0, "Unmapped">>

map_ips_to_interfaces(table, kernel, collection) ==
    LET ifs == UsableInterfaces(table)
        owner == [i \in 1..Len(collection.ranges) |-> RangeOwner(ifs, collection.ranges[i])]
        singles == collection.singles \cup RouterExploded(ifs, collection)
        route == [ip \in singles |-> RouteOfSingle(ifs, kernel, ip)]
        localRanges(idx) ==
            LET keep == {i \in 1..Len(collection.ranges) : owner[i] = idx}
                F[i \in 0..Len(collection.ranges)] ==
                    IF i = 0 THEN <<>>
                    ELSE IF i \in keep THEN Append(F[i - 1], collection.ranges[i]) ELSE F[i - 1]
            IN F[Len(collection.ranges)]
        localOf == [idx \in 1..Len(ifs) |->
                      [ranges |-> localRanges(idx),
                       singles |-> {ip \in singles : route[ip] = <<idx, "Local">>}]]
        routedOf == [idx \in 1..Len(ifs) |->
                      [ranges |-> <<>>,
                       singles |-> {ip \in singles : route[ip] = <<idx, "Routed">>}]]
        used == {idx \in 1..Len(ifs) :
                    ~IpCollection_is_empty(localOf[idx]) \/ ~IpCollection_is_empty(routedOf[idx])}
    IN [interface_map |->
            [idx \in used |-> [intf |-> ifs[idx], local |-> localOf[idx], routed |-> routedOf[idx]]],
        unmapped_ips |->
            [ranges |-> <<>>,
             singles |-> {ip \in singles : route[ip][2] = "Unmapped"}]]

\* the addresses the router asks the kernel about: the singles (and the
\* addresses of exploded ranges) that no interface has a subnet for
Consulted(table, collection) ==
    {ip \in collection.singles \cup RouterExploded(UsableInterfaces(table), collection) :
        find_local_index(UsableInterfaces(table), ip) = 0}

\* the kernel's possible answers for a target: no source (bind or connect
\* failed) or an address of the target's family configured on some interface
KernelAnswers(table, ip) == {NoIp} \cup {src \in TableAddrs(table) : src.v = ip.v}

\* the kernel's routing decisions the router can meet for a collection
Kernels(table, collection) ==
    LET asked == Consulted(table, collection)
        addrs == TableAddrs(table) \cup {NoIp}
    IN {k \in [asked -> addrs] : \A ip \in asked : k[ip] \in KernelAnswers(table, ip)}

\* ------------------------------------------------- target collections (input)

\* the ranges Ipv4Range::new and cidr_range can build
AllRanges == {Ipv4Range_new(s, e) : s \in 0..MaxV4, e \in 0..MaxV4}

\* r comes before q in the order (start, end)
RangeBefore(r, q) ==
    \/ r.start_addr < q.start_addr
    \/ r.start_addr = q.start_addr /\ r.end_addr < q.end_addr

\* the lists of at most n distinct ranges, written in ascending order
RECURSIVE AscendingRangeLists(_)
AscendingRangeLists(n) ==
    IF n = 0 THEN {<<>>}
    ELSE LET shorter == AscendingRangeLists(n - 1)
         IN shorter \cup
            {Append(q, r) : <<q, r>> \in
                {<<t, x>> \in {u \in shorter : Len(u) = n - 1} \X AllRanges :
                    t = <<>> \/ RangeBefore(t[Len(t)], x)}}

\* the IPv6 singles the parser is given in the router's runs (an IPv4 single
\* leaves compact() as a one-address range, which AllRanges already holds)
RouterSingles == {V6(2), V6(3)}

\* what to_collection builds before it calls compact()
RawCollections ==
    {[ranges |-> rs, singles |-> ss] :
        rs \in AscendingRangeLists(MaxRanges), ss \in SUBSET RouterSingles}

\* the collections the Target Parser returns: non-empty and compacted
ParserOutputs == {compact(c) : c \in {r \in RawCollections : ~IpCollection_is_empty(r)}}

\* -------------------------------------------------------------------- Host

\* capacity of Host::rtt_history
RTT_HISTORY_CAP == 10

NoName == "none"
NoMac == "none"

Host_new(primary_ip) ==
    [primary_ip |-> primary_ip, hostname |-> NoName, ips |-> {primary_ip},
     mac |-> NoMac, rtt_history |-> <<>>]

with_mac(h, mac) == [h EXCEPT !.mac = mac]

\* (mutation of add_rtt) a full history drops the sample just pushed
add_rtt_dropping_newest(h, rtt) ==
    LET pushed == Append(h.rtt_history, rtt)
    IN [h EXCEPT !.rtt_history =
            IF Len(pushed) > RTT_HISTORY_CAP THEN SubSeq(pushed, 1, RTT_HISTORY_CAP) ELSE pushed]

add_rtt(h, rtt) ==
    LET pushed == Append(h.rtt_history, rtt)
    IN [h EXCEPT !.rtt_history =
            IF Len(pushed) > RTT_HISTORY_CAP THEN Tail(pushed) ELSE pushed]

\* (mutation of PopFrontWhileOver) the replaced deque is not trimmed
PopFrontNever(q) == q

RECURSIVE PopFrontWhileOver(_)
PopFrontWhileOver(q) ==
    IF Len(q) > RTT_HISTORY_CAP THEN PopFrontWhileOver(Tail(q)) ELSE q

set_rtts(h, rtts) == [h EXCEPT !.rtt_history = PopFrontWhileOver(rtts)]

with_rtt(h, rtt) == add_rtt(h, rtt)

\* Option<Duration>: None is the empty set, Some(d) the set {d}
None == {}
Some(d) == {d}

\* iter().sum() over durations
RECURSIVE DurationSum(_)
DurationSum(q) == IF q = <<>> THEN 0 ELSE Head(q) + DurationSum(Tail(q))

\* (mutation of min_rtt) the oldest sample
min_rtt_front(h) ==
    IF h.rtt_history = <<>> THEN None ELSE Some(Head(h.rtt_history))

\* iter().min().copied()
min_rtt(h) ==
    IF h.rtt_history = <<>> THEN None
    ELSE Some(CHOOSE d \in {h.rtt_history[i] : i \in 1..Len(h.rtt_history)} :
                 \A i \in 1..Len(h.rtt_history) : d <= h.rtt_history[i])

\* iter().max().copied()
max_rtt(h) ==
    IF h.rtt_history = <<>> THEN None
    ELSE Some(CHOOSE d \in {h.rtt_history[i] : i \in 1..Len(h.rtt_history)} :
                 \A i \in 1..Len(h.rtt_history) : d >= h.rtt_history[i])

\* Duration / u32 truncates (to the nanosecond; the model's unit of time)
average_rtt(h) ==
    IF h.rtt_history = <<>> THEN None
    ELSE Some(DurationSum(h.rtt_history) \div Len(h.rtt_history))

\* --------------------------------------------------------------- ScanTimer

ScanTimer_new(t, max_total_duration, min_runtime_duration, max_silence) ==
    [hard_deadline |-> t + max_total_duration,
     min_runtime |-> t + min_runtime_duration,
     max_silence |-> max_silence,
     last_seen |-> t]

mark_seen(timer, t) == [timer EXCEPT !.last_seen = t]

\* is_expired without the min_runtime guard on silence
is_expired_on_silence(timer, t) ==
    \/ t > timer.hard_deadline
    \/ t - timer.last_seen >= timer.max_silence

is_expired(timer, t) ==
    \/ t > timer.hard_deadline
    \/ t > timer.min_runtime /\ t - timer.last_seen >= timer.max_silence

\* ---------------------------------------------------------------- map helpers

EmptyMap == [x \in {} |-> 0]
Put(f, k, v) == [x \in DOMAIN f \cup {k} |-> IF x = k THEN v ELSE f[x]]
Remove(f, k) == [x \in DOMAIN f \ {k} |-> f[x]]

\* the orders in which the elements of a set can be listed (HashMap/HashSet
\* iteration order is not specified)
RECURSIVE Orders(_)
Orders(S) ==
    IF S = {} THEN {<<>>}
    ELSE UNION {{<<x>> \o q : q \in Orders(S \ {x})} : x \in S}

RECURSIVE Concat(_)
Concat(qs) == IF qs = <<>> THEN <<>> ELSE Head(qs) \o Concat(Tail(qs))

\* ------------------------------------------------------------------- state

VARIABLES
    interfaces,      \* the table datalink::interfaces() returns in this run
    targets,         \* the IpCollection handed to the router / to discover
    route_state,     \* "idle" before map_ips_to_interfaces has run, "mapped" after
    interface_map,   \* router result: index -> [intf, local, routed]
    unmapped_ips,    \* router result: the unmapped remainder
    source_ip,       \* the source address resolve_route_source_ip gave per consulted target
    a_host,          \* a Host driven through its own methods
    samples,         \* the last set_rtts argument followed by the samples added since
    a_collection,    \* an IpCollection driven through its own methods
    coll_op,         \* the last method called on it ("new" while it is being built)
    raw,             \* the collection as it was when compact() was called
    yielded,         \* what the iterator produced, in order
    measured,        \* what len() returned
    inputs,          \* the strings handed to to_collection, each a list of tokens
    lan_network,     \* what interface::get_lan_network() answers in this run
    a_timer,         \* a ScanTimer driven through its own methods
    timer_log,       \* how it was made, when it was last marked, what is_expired() last answered
    now,             \* the clock (Instant::now()), in ms
    STOP_SIGNAL,     \* scanner.rs: static STOP_SIGNAL
    FOUND_HOST_COUNT,\* scanner.rs: static FOUND_HOST_COUNT
    IS_LAN_SCAN,     \* target.rs: static IS_LAN_SCAN
    privileged,      \* what is_root() answers
    no_dns,          \* cfg.no_dns
    dpc,             \* where discover() is
    hosts,           \* discover's `hosts` vector; its return value once dpc = "done"
    dres,            \* "none" while discover runs, then "ok" or "err"
    awaited,         \* how many of the scanner handles discover has awaited
    tasks,           \* the spawned scanner tasks, in spawn order
    senders,         \* who holds a live clone of dns_tx
    dns_queue,       \* the resolver's input queue
    resolver         \* the resolver task and the HostnameResolver it owns

routerVars == <<interfaces, targets, route_state, interface_map, unmapped_ips, source_ip>>
globalVars == <<STOP_SIGNAL, FOUND_HOST_COUNT, IS_LAN_SCAN>>
cfgVars == <<privileged, no_dns>>
unitVars == <<a_host, samples, a_collection, coll_op, raw, yielded, measured, inputs, lan_network, a_timer, timer_log>>
discVars == <<dpc, hosts, dres, awaited>>
dnsVars == <<senders, dns_queue, resolver>>

vars == <<interfaces, targets, route_state, interface_map, unmapped_ips, source_ip, a_host, samples,
          a_collection, coll_op, raw, yielded, measured, inputs, lan_network, a_timer, timer_log, now,
          STOP_SIGNAL, FOUND_HOST_COUNT, IS_LAN_SCAN, privileged, no_dns,
          dpc, hosts, dres, awaited, tasks, senders, dns_queue, resolver>>

\* the HostnameResolver before anything happened; pc "none": no resolver task
ResolverIdle ==
    [pc |-> "none", dns_map |-> EmptyMap, hostname_map |-> EmptyMap,
     mdns_cache |-> EmptyMap, id_counter |-> 0, queries |-> <<>>, drain_start |-> 0]

\* get_lan_network: Ok(None), no private IPv4 network on the chosen interface
NoLan == [found |-> "none", ip |-> 0, prefix |-> 0]
\* get_lan_network: Err, no interface is viable for LAN discovery
LanErr == [found |-> "err", ip |-> 0, prefix |-> 0]

\* no IpCollection is driven on its own
CollectionIdle ==
    /\ lan_network = NoLan
    /\ a_collection = IpCollection_new
    /\ coll_op = "new"
    /\ raw = IpCollection_new
    /\ yielded = <<>>
    /\ measured = 0
    /\ inputs = <<>>

\* no Host is driven on its own
NoHost == [primary_ip |-> NoIp]
NoTimer == ScanTimer_new(0, 0, 0, 0)
\* no ScanTimer is driven on its own
TimerIdle ==
    /\ a_timer = NoTimer
    /\ timer_log = [op |-> "none"]

UnitIdle ==
    /\ a_host = NoHost
    /\ TimerIdle
    /\ samples = <<>>
    /\ CollectionIdle

\* the state before discover() is called
IdleInit ==
    /\ route_state = "idle"
    /\ interface_map = EmptyMap
    /\ unmapped_ips = IpCollection_new
    /\ source_ip = EmptyMap
    /\ now = 0
    /\ STOP_SIGNAL = FALSE
    /\ FOUND_HOST_COUNT = 0
    /\ dpc = "start"
    /\ hosts = <<>>
    /\ dres = "none"
    /\ awaited = 0
    /\ tasks = <<>>
    /\ senders = {}
    /\ dns_queue = <<>>
    /\ resolver = ResolverIdle

\* ------------------------------------------------------------ Target Router

\* one call of map_ips_to_interfaces(targets) under some routing table of the kernel
RouterCall ==
    /\ route_state = "idle"
    /\ \E kernel \in Kernels(interfaces, targets) :
         LET out == map_ips_to_interfaces(interfaces, kernel, targets) IN
         /\ interface_map' = out.interface_map
         /\ unmapped_ips' = out.unmapped_ips
         /\ source_ip' = kernel
    /\ route_state' = "mapped"
    /\ UNCHANGED <<interfaces, targets, unitVars, now, globalVars, cfgVars, discVars, tasks, dnsVars>>

RouterInit ==
    /\ IdleInit
    /\ UnitIdle
    /\ interfaces \in IfTables
    /\ targets \in ParserOutputs
    /\ IS_LAN_SCAN = FALSE
    /\ privileged = TRUE
    /\ no_dns = TRUE

RouterNext == RouterCall

SpecRouter == RouterInit /\ [][RouterNext]_vars

\* ------------------------------------------------------------ scanner tasks

\* local.rs
MAX_CHANNEL_TIME == 7500
MIN_CHANNEL_TIME == 2500
MAX_SILENCE_MS == 500
\* routed.rs
MIN_SCAN_DURATION == 200
MAX_SCAN_DURATION == 3000
\* handshake.rs: probe_timeout
PROBE_TIMEOUT == 100
\* resolver.rs: the timeout around the drain in run
DRAIN_TIMEOUT == 250

\* the step by which the clock advances in a run of discover
TickMs == 7500
\* the step by which the clock advances when scanners are studied alone
FineTickMs == 2500
\* no run spawns more scanner tasks than this
MaxTasks == 3
\* the largest number of targets calculate_deadline is evaluated for
MaxTargets == 6000
\* highest TCP sequence number of the scaled 32-bit sequence space
MaxSeq == 1

NoIntf == [name |-> "none", up |-> FALSE, loopback |-> FALSE, mac |-> NoMac, ips |-> <<>>]

NoSenderCfg ==
    [local_mac |-> NoMac, ipv4_nets |-> <<>>, ipv6_nets |-> <<>>,
     targets_v4 |-> {}, targets_v6 |-> {}, packet_types |-> {}]


\* a task tokio::spawn has accepted and not yet polled; has_tx: it owns a
\* clone of dns_tx; io_log: the rtt_map inserts and the frames handed to the
\* raw sender, in program order
SpawnedTask(kind, intf, ips, has_tx) ==
    [kind |-> kind, intf |-> intf, ips |-> ips, has_tx |-> has_tx,
     pc |-> "spawned", outcome |-> "running", result |-> <<>>,
     sender_cfg |-> NoSenderCfg, arp_left |-> {}, icmp_left |-> {},
     sending_finished |-> FALSE, hosts_map |-> EmptyMap, rtt_map |-> EmptyMap,
     responded_ips |-> EmptyMap, src_v4 |-> NoIp, src_v6 |-> NoIp,
     timer |-> NoTimer, deadline |-> 0,
     todo_singles |-> {}, todo_ranges |-> <<>>, probe_target |-> NoIp,
     probe_start |-> 0, emitted |-> <<>>, outcomes |-> <<>>, io_log |-> <<>>]

Inserted(key) == [op |-> "insert", key |-> key]
Sent(key) == [op |-> "send", key |-> key]

Running(t) == t \in 1..Len(tasks) /\ tasks[t].outcome = "running"

\* the task ends: its future is dropped, and with it the scanner and the
\* clone of dns_tx it owns
EndTask(t, task, outcome, result) ==
    /\ tasks' = [tasks EXCEPT ![t] =
                    [task EXCEPT !.pc = "done", !.outcome = outcome, !.result = result]]
    /\ senders' = senders \ {t}

\* (mutation of QueueAfterSend) a send is queued even when the receiver is gone
QueueAfterSendUnchecked(has_tx, ip) ==
    IF has_tx /\ ip # NoIp /\ resolver.pc # "none"
    THEN Append(dns_queue, ip)
    ELSE dns_queue

\* tx.send(ip) on the resolver's input queue: an error (ignored by every
\* caller) once the receiver is gone, which is when the resolver failed to start
QueueAfterSend(has_tx, ip) ==
    IF has_tx /\ ip # NoIp /\ resolver.pc # "failed" /\ resolver.pc # "none"
    THEN Append(dns_queue, ip)
    ELSE dns_queue

\* ------------------------------------------------------------ Local Scanner

SenderConfig_from(intf) ==
    [local_mac |-> intf.mac,
     ipv4_nets |-> SelectSeq(intf.ips, LAMBDA n : is_ipv4(n.ip)),
     ipv6_nets |-> SelectSeq(intf.ips, LAMBDA n : is_ipv6(n.ip)),
     targets_v4 |-> {}, targets_v6 |-> {}, packet_types |-> {}]

add_targets(cfg, ips) ==
    [cfg EXCEPT !.targets_v4 = @ \cup {ip \in ips : is_ipv4(ip)},
                !.targets_v6 = @ \cup {ip \in ips : is_ipv6(ip)}]

SenderConfig_len(cfg) == Cardinality(cfg.targets_v4) + Cardinality(cfg.targets_v6)

is_addr_in_subnet(cfg, ip) ==
    IF is_ipv4(ip)
    THEN \E i \in 1..Len(cfg.ipv4_nets) : IpNetwork_contains(cfg.ipv4_nets[i], ip)
    ELSE \E i \in 1..Len(cfg.ipv6_nets) : IpNetwork_contains(cfg.ipv6_nets[i], ip)

\* get_link_local: the first link-local address among the IPv6 networks, or NoIp
get_link_local(cfg) ==
    LET hits == {i \in 1..Len(cfg.ipv6_nets) : is_unicast_link_local(cfg.ipv6_nets[i].ip)}
    IN IF hits = {} THEN NoIp
       ELSE cfg.ipv6_nets[CHOOSE i \in hits : \A k \in hits : i <= k].ip

\* eth_packet_iter: the probes to emit, keyed by the address rtt_map records
\* them under, or an error
eth_packet_iter(cfg) ==
    LET arp == "ARP" \in cfg.packet_types
        icmp == "ICMPv6" \in cfg.packet_types
    IN [err |-> \/ arp /\ (cfg.local_mac = NoMac \/ cfg.ipv4_nets = <<>>)
                \/ icmp /\ (get_link_local(cfg) = NoIp \/ cfg.local_mac = NoMac),
        arp |-> IF arp THEN cfg.targets_v4 ELSE {},
        icmp |-> IF icmp THEN {get_link_local(cfg)} ELSE {}]

\* LocalScanner::new: the sender configuration of a scan of `collection`
LocalSenderCfg(intf, collection) ==
    LET base == SenderConfig_from(intf)
        types == IF IS_LAN_SCAN THEN {"ARP", "ICMPv6"} ELSE {"ARP"}
    IN add_targets([base EXCEPT !.packet_types = types], CollIps(collection))

\* LocalScanner::new followed by the head of discover_hosts
LocalStart(t) ==
    /\ Running(t) /\ tasks[t].kind = "local" /\ tasks[t].pc = "spawned"
    /\ \E capture_ok \in BOOLEAN :
         LET task == tasks[t]
             cfg == LocalSenderCfg(task.intf, task.ips)
             iter == eth_packet_iter(cfg)
         IN IF ~capture_ok \/ iter.err
            THEN EndTask(t, task, "err", <<>>)
            ELSE /\ tasks' = [tasks EXCEPT ![t] =
                       [task EXCEPT !.pc = "top", !.sender_cfg = cfg,
                                    !.arp_left = iter.arp, !.icmp_left = iter.icmp,
                                    !.timer = ScanTimer_new(now, MAX_CHANNEL_TIME,
                                                            MIN_CHANNEL_TIME, MAX_SILENCE_MS),
                                    !.deadline = now + MAX_CHANNEL_TIME]]
                 /\ UNCHANGED senders
    /\ UNCHANGED <<routerVars, unitVars, now, globalVars, cfgVars, discVars, dns_queue, resolver>>

should_continue(task) ==
    /\ ~STOP_SIGNAL
    /\ ~is_expired(task.timer, now)
    /\ SenderConfig_len(task.sender_cfg) > Cardinality(DOMAIN task.hosts_map)

\* (mutation of LocalBreak) the loop top does not look at STOP_SIGNAL
LocalBreakIgnoringStop(task) == ~should_continue(task) /\ task.sending_finished

\* the loop's break condition, checked at the top of every iteration
LocalBreak(task) == (~should_continue(task) /\ task.sending_finished) \/ STOP_SIGNAL

\* Ok(self.hosts_map.drain().map(|(_, v)| v).collect())
LocalReturn(t, task) ==
    \E order \in Orders(DOMAIN task.hosts_map) :
        EndTask(t, task, "ok", [i \in 1..Len(order) |-> task.hosts_map[order[i]]])

LocalLoopTop(t) ==
    /\ Running(t) /\ tasks[t].kind = "local" /\ tasks[t].pc = "top"
    /\ IF LocalBreak(tasks[t])
       THEN LocalReturn(t, tasks[t])
       ELSE /\ tasks' = [tasks EXCEPT ![t].pc = "select"]
            /\ UNCHANGED senders
    /\ UNCHANGED <<routerVars, unitVars, now, globalVars, cfgVars, discVars, dns_queue, resolver>>

\* get_ip_addr_from_eth: the source address of the frame, NoIp when the
\* EtherType is unsupported or the payload does not parse
get_ip_addr_from_eth(f) ==
    IF f.ethertype \in {"Arp", "Ipv4", "Ipv6"} THEN f.src_ip ELSE NoIp

\* (mutation of Ipv6FromStranger) IPv6 neighbours are harvested on every scan
Ipv6FromStrangerKept(task, f) == FALSE

\* an IPv6 frame from a MAC that is not in the host table, on a scan that is
\* not LAN-wide
Ipv6FromStranger(task, f) ==
    /\ is_ipv6(get_ip_addr_from_eth(f))
    /\ ~IS_LAN_SCAN
    /\ f.src_mac \notin DOMAIN task.hosts_map

\* the frames process_eth_packet leaves before it touches any state
FrameDropped(task, f) ==
    \/ f.src_mac = task.sender_cfg.local_mac
    \/ get_ip_addr_from_eth(f) = NoIp
    \/ ~is_addr_in_subnet(task.sender_cfg, get_ip_addr_from_eth(f))
    \/ Ipv6FromStranger(task, f)

\* (mutation of calculate_rtt) the ARP entry is read with get, like the IPv6 one
calculate_rtt_retaining(task, f) ==
    LET key == IF f.ethertype = "Arp" THEN f.src_ip
               ELSE IF f.ethertype = "Ipv6" /\ is_unicast_link_local(f.dst_ip) THEN f.dst_ip
               ELSE NoIp
    IN IF key \in DOMAIN task.rtt_map
       THEN [rtt |-> now - task.rtt_map[key], rtt_map |-> task.rtt_map]
       ELSE [rtt |-> -1, rtt_map |-> task.rtt_map]

\* calculate_rtt: [rtt, rtt_map]; rtt = -1 stands for None (also for the
\* errors, which the caller logs and turns into None)
calculate_rtt(task, f) ==
    IF f.ethertype = "Arp"
    THEN IF f.src_ip \in DOMAIN task.rtt_map
         THEN [rtt |-> now - task.rtt_map[f.src_ip], rtt_map |-> Remove(task.rtt_map, f.src_ip)]
         ELSE [rtt |-> -1, rtt_map |-> task.rtt_map]
    ELSE IF f.ethertype = "Ipv6" /\ is_unicast_link_local(f.dst_ip)
                                 /\ f.dst_ip \in DOMAIN task.rtt_map
         THEN [rtt |-> now - task.rtt_map[f.dst_ip], rtt_map |-> task.rtt_map]
         ELSE [rtt |-> -1, rtt_map |-> task.rtt_map]

\* (mutation of UpsertIp) the address is recorded, primary_ip is left alone
UpsertIpKeepingPrimary(h, source_addr) == [h EXCEPT !.ips = @ \cup {source_addr}]

\* (mutation of UpsertIp) primary_ip is upgraded, the address is not recorded
UpsertIpWithoutInsert(h, source_addr) ==
    IF is_ipv4(source_addr) /\ is_ipv6(h.primary_ip)
    THEN [h EXCEPT !.primary_ip = source_addr]
    ELSE h

\* host.ips.insert(source_addr), then IPv4 replaces an IPv6 primary_ip
UpsertIp(h, source_addr) ==
    LET inserted == [h EXCEPT !.ips = @ \cup {source_addr}]
    IN IF is_ipv4(source_addr) /\ is_ipv6(inserted.primary_ip)
       THEN [inserted EXCEPT !.primary_ip = source_addr]
       ELSE inserted

\* hosts_map.entry(source_mac) taken as vacant for every frame
IsNewHostAlways(task, f) == TRUE

\* hosts_map.entry(source_mac) is vacant: or_insert_with runs its closure
IsNewHost(task, f) == f.src_mac \notin DOMAIN task.hosts_map

\* process_eth_packet on a frame that is not dropped: [task, is_new_host, notify]
process_eth_packet(task, f) ==
    LET source_addr == get_ip_addr_from_eth(f)
        r == calculate_rtt(task, f)
        is_new_host == IsNewHost(task, f)
        host0 == IF is_new_host THEN with_mac(Host_new(source_addr), f.src_mac)
                 ELSE task.hosts_map[f.src_mac]
        host1 == IF r.rtt >= 0 THEN add_rtt(host0, r.rtt) ELSE host0
        is_new_ip == source_addr \notin host1.ips
        host3 == UpsertIp(host1, source_addr)
    IN [task |-> [task EXCEPT !.hosts_map = Put(task.hosts_map, f.src_mac, host3),
                              !.rtt_map = r.rtt_map,
                              !.timer = IF is_new_host THEN mark_seen(task.timer, now)
                                        ELSE task.timer,
                              !.pc = "top"],
        is_new_host |-> is_new_host,
        notify |-> IF is_new_host \/ is_new_ip THEN source_addr ELSE NoIp]

\* select!: a frame arrives on the capture queue
LocalRecv(t, f) ==
    /\ Running(t) /\ tasks[t].kind = "local" /\ tasks[t].pc = "select"
    /\ IF FrameDropped(tasks[t], f)
       THEN /\ tasks' = [tasks EXCEPT ![t].pc = "top"]
            /\ UNCHANGED <<FOUND_HOST_COUNT, dns_queue>>
       ELSE LET out == process_eth_packet(tasks[t], f) IN
            /\ tasks' = [tasks EXCEPT ![t] = out.task]
            /\ FOUND_HOST_COUNT' = FOUND_HOST_COUNT + (IF out.is_new_host THEN 1 ELSE 0)
            /\ dns_queue' = QueueAfterSend(tasks[t].has_tx, out.notify)
    /\ UNCHANGED <<routerVars, unitVars, now, STOP_SIGNAL, IS_LAN_SCAN, cfgVars, discVars, senders, resolver>>

\* select!: the pacing interval ticks and the next probe is drawn; the ARP
\* probes come first, in the target set's iteration order; `built` is whether
\* the frame encoder succeeded (the iterator panics if it did not)
LocalSendTick(t) ==
    /\ Running(t) /\ tasks[t].kind = "local" /\ tasks[t].pc = "select"
    /\ ~tasks[t].sending_finished
    /\ LET task == tasks[t] IN
       IF task.arp_left # {}
       THEN \E ip \in task.arp_left, built \in BOOLEAN :
              IF built
              THEN /\ tasks' = [tasks EXCEPT ![t] =
                        [task EXCEPT !.arp_left = @ \ {ip},
                                     !.rtt_map = Put(task.rtt_map, ip, now),
                                     !.emitted = Append(@, ip),
                                     !.io_log = @ \o <<Inserted(ip), Sent(ip)>>,
                                     !.pc = "top"]]
                   /\ UNCHANGED senders
              ELSE EndTask(t, task, "panic", <<>>)
       ELSE IF task.icmp_left # {}
       THEN \E ip \in task.icmp_left :
              /\ tasks' = [tasks EXCEPT ![t] =
                        [task EXCEPT !.icmp_left = {},
                                     !.rtt_map = Put(task.rtt_map, ip, now),
                                     !.emitted = Append(@, ip),
                                     !.io_log = @ \o <<Inserted(ip), Sent(ip)>>,
                                     !.pc = "top"]]
              /\ UNCHANGED senders
       ELSE /\ tasks' = [tasks EXCEPT ![t].sending_finished = TRUE, ![t].pc = "top"]
            /\ UNCHANGED senders
    /\ UNCHANGED <<routerVars, unitVars, now, globalVars, cfgVars, discVars, dns_queue, resolver>>

\* select!: the absolute deadline (scan_deadline) fires
LocalDeadline(t) ==
    /\ Running(t) /\ tasks[t].kind = "local" /\ tasks[t].pc = "select"
    /\ now >= tasks[t].deadline
    /\ LocalReturn(t, tasks[t])
    /\ UNCHANGED <<routerVars, unitVars, now, globalVars, cfgVars, discVars, dns_queue, resolver>>

\* ----------------------------------------------------------- Routed Scanner

Min(a, b) == IF a <= b THEN a ELSE b

Max(a, b) == IF a >= b THEN a ELSE b

\* calculate_deadline: MIN_SCAN_DURATION plus half a millisecond per target,
\* rounded down, clamped to [MIN_SCAN_DURATION, MAX_SCAN_DURATION]
scan_duration(ips_len) ==
    Min(Max(MIN_SCAN_DURATION + (ips_len \div 2), MIN_SCAN_DURATION), MAX_SCAN_DURATION)

calculate_deadline(ips_len) == now + scan_duration(ips_len)

\* the first address of a family (4 or 6) among the interface's networks, or NoIp
FirstAddr(intf, family) ==
    LET hits == {i \in 1..Len(intf.ips) : intf.ips[i].ip.v = family}
    IN IF hits = {} THEN NoIp
       ELSE intf.ips[CHOOSE i \in hits : \A k \in hits : i <= k].ip

\* the addresses of the ranges in list order, each range ascending
RangesInOrder(c) == Concat([i \in 1..Len(c.ranges) |->
                      [k \in 1..(c.ranges[i].end_addr - c.ranges[i].start_addr + 1) |->
                          V4(c.ranges[i].start_addr + k - 1)]])

\* IpCollection::iter: a single IPv4 address that a range covers is left out
IterSingles(c) ==
    {ip \in c.singles :
        ~(is_ipv4(ip) /\ \E i \in 1..Len(c.ranges) : Ipv4Range_contains(c.ranges[i], ip))}

\* RoutedScanner::new
RoutedStart(t) ==
    /\ Running(t) /\ tasks[t].kind = "routed" /\ tasks[t].pc = "spawned"
    /\ \E capture_ok \in BOOLEAN :
         LET task == tasks[t]
             src_v4 == FirstAddr(task.intf, 4)
             src_v6 == FirstAddr(task.intf, 6)
         IN IF ~capture_ok \/ (src_v4 = NoIp /\ src_v6 = NoIp)
            THEN EndTask(t, task, "err", <<>>)
            ELSE /\ tasks' = [tasks EXCEPT ![t] =
                       [task EXCEPT !.pc = "send", !.src_v4 = src_v4, !.src_v6 = src_v6,
                                    !.todo_singles = IterSingles(task.ips),
                                    !.todo_ranges = RangesInOrder(task.ips)]]
                 /\ UNCHANGED senders
    /\ UNCHANGED <<routerVars, unitVars, now, globalVars, cfgVars, discVars, dns_queue, resolver>>

\* IpCollection::iter: the ranges in list order, then the singles left
NextInIter(task) ==
    IF task.todo_ranges # <<>> THEN {Head(task.todo_ranges)}
    ELSE task.todo_singles

AfterInIter(task, ip) ==
    IF task.todo_ranges # <<>>
    THEN [task EXCEPT !.todo_ranges = Tail(@)]
    ELSE [task EXCEPT !.todo_singles = @ \ {ip}]

\* IntoIterator: the targets the walk may yield next, the singles first
NextTargets(task) ==
    IF task.todo_singles # {} THEN task.todo_singles
    ELSE IF task.todo_ranges # <<>> THEN {Head(task.todo_ranges)}
    ELSE {}

AfterTarget(task, ip) ==
    IF task.todo_singles # {}
    THEN [task EXCEPT !.todo_singles = @ \ {ip}]
    ELSE [task EXCEPT !.todo_ranges = Tail(@)]

\* send_discovery_packets ends (by exhaustion or by an error the caller only
\* logs) and the soft deadline is computed
SendingOver(task) ==
    [task EXCEPT !.pc = "top", !.todo_singles = {}, !.todo_ranges = <<>>,
                 !.deadline = calculate_deadline(IpCollection_len(task.ips))]

\* one round of the loop of send_discovery_packets; `outcome` is what the
\* packet builder and the socket do with this SYN
RoutedSend(t, seq_num, outcome) ==
    /\ Running(t) /\ tasks[t].kind = "routed" /\ tasks[t].pc = "send"
    /\ LET task == tasks[t] IN
       IF NextInIter(task) = {}
       THEN /\ seq_num = 0 /\ outcome = "sent"
            /\ tasks' = [tasks EXCEPT ![t] = SendingOver(task)]
       ELSE \E dst_addr \in NextInIter(task) :
              LET src == IF is_ipv4(dst_addr) THEN task.src_v4 ELSE task.src_v6 IN
              IF src = NoIp \/ outcome = "build_err"
              THEN tasks' = [tasks EXCEPT ![t] = SendingOver(task)]
              ELSE IF outcome = "send_err"
              THEN tasks' = [tasks EXCEPT ![t] = AfterInIter(task, dst_addr)]
              ELSE tasks' = [tasks EXCEPT ![t] =
                       [AfterInIter(task, dst_addr) EXCEPT
                           !.rtt_map = Put(task.rtt_map, <<dst_addr, seq_num>>, now),
                           !.emitted = Append(@, dst_addr),
                           !.io_log = @ \o <<Sent(<<dst_addr, seq_num>>),
                                             Inserted(<<dst_addr, seq_num>>)>>]]
    /\ UNCHANGED <<routerVars, unitVars, now, globalVars, cfgVars, discVars, senders, dns_queue, resolver>>

\* rtt_map.clear(), then one Host per responder in the map's drain order
RoutedReturn(t, task) ==
    \E order \in Orders(DOMAIN task.responded_ips) :
        EndTask(t, [task EXCEPT !.rtt_map = EmptyMap], "ok",
                [i \in 1..Len(order) |->
                    set_rtts(Host_new(order[i]), task.responded_ips[order[i]])])

\* (mutation of RoutedBreak) the loop top does not look at the deadline
RoutedBreakNoDeadline(task) ==
    \/ STOP_SIGNAL
    \/ IpCollection_len(task.ips) = Cardinality(DOMAIN task.responded_ips)

\* the two checks at the top of every iteration
RoutedBreak(task) ==
    \/ STOP_SIGNAL
    \/ IpCollection_len(task.ips) = Cardinality(DOMAIN task.responded_ips)
    \/ now >= task.deadline

RoutedLoopTop(t) ==
    /\ Running(t) /\ tasks[t].kind = "routed" /\ tasks[t].pc = "top"
    /\ IF RoutedBreak(tasks[t])
       THEN RoutedReturn(t, tasks[t])
       ELSE /\ tasks' = [tasks EXCEPT ![t].pc = "select"]
            /\ UNCHANGED senders
    /\ UNCHANGED <<routerVars, unitVars, now, globalVars, cfgVars, discVars, dns_queue, resolver>>

\* ack_num.wrapping_sub(1) in the scaled sequence space
wrapping_sub1(ack) == (ack + MaxSeq) % (MaxSeq + 1)

\* select!: a TCP segment arrives; seg.parsed is whether TcpPacket::new
\* accepts the bytes
RoutedRecv(t, seg) ==
    /\ Running(t) /\ tasks[t].kind = "routed" /\ tasks[t].pc = "select"
    /\ LET task == tasks[t]
           is_new == seg.ip \notin DOMAIN task.responded_ips
           latencies == IF is_new THEN <<>> ELSE task.responded_ips[seg.ip]
           key == <<seg.ip, wrapping_sub1(seg.ack)>>
           matched == seg.parsed /\ key \in DOMAIN task.rtt_map
       IN IF ~IpCollection_contains(task.ips, seg.ip)
          THEN /\ tasks' = [tasks EXCEPT ![t].pc = "top"]
               /\ UNCHANGED <<FOUND_HOST_COUNT, dns_queue>>
          ELSE /\ tasks' = [tasks EXCEPT ![t] =
                     [task EXCEPT
                        !.responded_ips = Put(task.responded_ips, seg.ip,
                            IF matched THEN Append(latencies, now - task.rtt_map[key])
                            ELSE latencies),
                        !.rtt_map = IF matched THEN Remove(task.rtt_map, key) ELSE @,
                        !.pc = "top"]]
               /\ FOUND_HOST_COUNT' = FOUND_HOST_COUNT + (IF is_new THEN 1 ELSE 0)
               /\ dns_queue' = QueueAfterSend(task.has_tx, IF is_new THEN seg.ip ELSE NoIp)
    /\ UNCHANGED <<routerVars, unitVars, now, STOP_SIGNAL, IS_LAN_SCAN, cfgVars, discVars, senders, resolver>>

\* select!: sleep(remaining) completes
RoutedSleep(t) ==
    /\ Running(t) /\ tasks[t].kind = "routed" /\ tasks[t].pc = "select"
    /\ now >= tasks[t].deadline
    /\ RoutedReturn(t, tasks[t])
    /\ UNCHANGED <<routerVars, unitVars, now, globalVars, cfgVars, discVars, dns_queue, resolver>>

\* -------------------------------------------------------- Handshake Prober

\* `for target in targets`: IpCollection::into_iter leaves nothing out
HandshakeStart(t) ==
    /\ Running(t) /\ tasks[t].kind = "handshake" /\ tasks[t].pc = "spawned"
    /\ tasks' = [tasks EXCEPT ![t] =
           [tasks[t] EXCEPT !.pc = "top",
                            !.todo_singles = tasks[t].ips.singles,
                            !.todo_ranges = RangesInOrder(tasks[t].ips)]]
    /\ UNCHANGED <<routerVars, unitVars, now, globalVars, cfgVars, discVars, senders, dns_queue, resolver>>

\* the head of the loop of range_discovery: leave when the targets are used
\* up or STOP_SIGNAL is set, otherwise start the connect for the next target
HandshakeLoopTop(t) ==
    /\ Running(t) /\ tasks[t].kind = "handshake" /\ tasks[t].pc = "top"
    /\ LET task == tasks[t] IN
       IF NextTargets(task) = {} \/ STOP_SIGNAL
       THEN EndTask(t, task, "ok", task.result)
       ELSE \E target \in NextTargets(task) :
              /\ tasks' = [tasks EXCEPT ![t] =
                     [AfterTarget(task, target) EXCEPT
                         !.pc = "probe", !.probe_target = target, !.probe_start = now,
                         !.emitted = Append(@, target)]]
              /\ UNCHANGED senders
    /\ UNCHANGED <<routerVars, unitVars, now, globalVars, cfgVars, discVars, dns_queue, resolver>>

\* (mutation of ProbeYields) a refused connect does not count as alive
ProbeYieldsConnectedOnly(connect) == connect = "connected"

\* prober: what timeout(probe_timeout, connect) returned makes a host:
\* Ok(Ok(_)) | Ok(Err(_)), the connect succeeded or failed with a socket error
ProbeYields(connect) == connect \in {"connected", "refused"}

\* prober: the connect finishes before the timeout
HandshakeProbeDone(t, connect) ==
    /\ Running(t) /\ tasks[t].kind = "handshake" /\ tasks[t].pc = "probe"
    /\ now < tasks[t].probe_start + PROBE_TIMEOUT
    /\ LET task == tasks[t]
           host == with_rtt(Host_new(task.probe_target), now - task.probe_start)
       IN tasks' = [tasks EXCEPT ![t] =
              [task EXCEPT !.pc = "top",
                           !.outcomes = Append(@, connect),
                           !.result = IF ProbeYields(connect) THEN Append(@, host) ELSE @]]
    /\ FOUND_HOST_COUNT' = FOUND_HOST_COUNT + (IF ProbeYields(connect) THEN 1 ELSE 0)
    /\ UNCHANGED <<routerVars, unitVars, now, STOP_SIGNAL, IS_LAN_SCAN, cfgVars, discVars, senders, dnsVars>>

\* prober: the timeout elapses first
HandshakeProbeTimeout(t) ==
    /\ Running(t) /\ tasks[t].kind = "handshake" /\ tasks[t].pc = "probe"
    /\ now >= tasks[t].probe_start + PROBE_TIMEOUT
    /\ tasks' = [tasks EXCEPT ![t].pc = "top", ![t].outcomes = Append(@, "timeout")]
    /\ UNCHANGED <<routerVars, unitVars, now, globalVars, cfgVars, discVars, senders, dnsVars>>

\* -------------------------------------------------------- Hostname Resolver

\* the number of values of a TransID: 2^16 in the code, scaled down so that
\* the counter wraps within a run
TransIdSpace == 4

\* names a PTR record can carry; the ones in ArpaNames end with ".arpa"
ArpaNames == {"2.0.0.10.in-addr.arpa"}

ends_with_arpa(name) == name \in ArpaNames

is_queryable(ip) == IF is_ipv6(ip) THEN is_global_unicast(ip) ELSE TRUE

\* HostnameResolver::new inside the task spawn_resolver starts: on an error
\* the task returns None and the receiving end of the queue is dropped
ResolverStart(started) ==
    /\ resolver.pc = "spawned"
    /\ IF started
       THEN /\ resolver' = [resolver EXCEPT !.pc = "run"]
            /\ UNCHANGED dns_queue
       ELSE /\ resolver' = [resolver EXCEPT !.pc = "failed"]
            /\ dns_queue' = <<>>
    /\ UNCHANGED <<routerVars, unitVars, now, globalVars, cfgVars, discVars, tasks, senders>>

\* run, select!: an address arrives on the input queue; send_dns_query.
\* `emitted`: building and sending the query succeed
ResolverRecvIp(emitted) ==
    /\ resolver.pc = "run"
    /\ dns_queue # <<>>
    /\ LET ip == Head(dns_queue)
           id == resolver.id_counter
       IN IF ~is_queryable(ip)
          THEN resolver' = resolver
          ELSE resolver' = [resolver EXCEPT
                   !.id_counter = (id + 1) % TransIdSpace,
                   !.dns_map = Put(resolver.dns_map, id, ip),
                   !.queries = IF emitted THEN Append(@, <<id, ip>>) ELSE @]
    /\ dns_queue' = Tail(dns_queue)
    /\ UNCHANGED <<routerVars, unitVars, now, globalVars, cfgVars, discVars, tasks, senders>>

\* (mutation of ResolverClosed) the drain is entered whatever dns_map holds
ResolverClosedDraining ==
    /\ resolver.pc = "run"
    /\ dns_queue = <<>>
    /\ senders = {}
    /\ resolver' = [resolver EXCEPT !.pc = "drain", !.drain_start = now]
    /\ UNCHANGED <<routerVars, unitVars, now, globalVars, cfgVars, discVars, tasks, senders, dns_queue>>

\* run, select!: recv() yields None, which it does once the queue is empty
\* and every sender is dropped; the loop ends, and the drain starts if
\* queries are outstanding
ResolverClosed ==
    /\ resolver.pc = "run"
    /\ dns_queue = <<>>
    /\ senders = {}
    /\ resolver' = IF resolver.dns_map = EmptyMap
                   THEN [resolver EXCEPT !.pc = "returned"]
                   ELSE [resolver EXCEPT !.pc = "drain", !.drain_start = now]
    /\ UNCHANGED <<routerVars, unitVars, now, globalVars, cfgVars, discVars, tasks, senders, dns_queue>>

\* dns::get_hostname: the name of the first PTR answer, NoName for the error
get_hostname(pkt) == pkt.name

\* mdns::extract_resource over the answer and additional records in order
RECURSIVE extract_resource(_, _)
extract_resource(rrs, metadata) ==
    IF rrs = <<>> THEN metadata
    ELSE LET rr == Head(rrs)
             next == IF rr.type = "PTR"
                     THEN IF ends_with_arpa(rr.name) THEN metadata
                          ELSE [metadata EXCEPT !.hostname = rr.name]
                     ELSE IF rr.type \in {"A", "AAAA"}
                     THEN [metadata EXCEPT !.ips = @ \cup {rr.ip}]
                     ELSE metadata
         IN extract_resource(Tail(rrs), next)

MdnsRecord_default == [hostname |-> NoName, ips |-> {}]

\* the addresses process_mdns_packet may file the record under: an IPv4
\* address if there is one, else a link-local one, else any
PreferredIps(ips) ==
    IF \E ip \in ips : is_ipv4(ip) THEN {ip \in ips : is_ipv4(ip)}
    ELSE IF \E ip \in ips : is_unicast_link_local(ip)
    THEN {ip \in ips : is_unicast_link_local(ip)}
    ELSE ips

\* process_udp_packets
ResolverAfterUdp(r, pkt, preferred_ip) ==
    IF pkt.kind = "dns"
    THEN IF get_hostname(pkt) # NoName /\ pkt.id \in DOMAIN r.dns_map
         THEN [r EXCEPT !.hostname_map = Put(r.hostname_map, r.dns_map[pkt.id], get_hostname(pkt)),
                        !.dns_map = Remove(r.dns_map, pkt.id)]
         ELSE r
    ELSE IF pkt.kind = "mdns" /\ preferred_ip # NoIp
    THEN [r EXCEPT !.mdns_cache = Put(r.mdns_cache, preferred_ip,
                                      extract_resource(pkt.rrs, MdnsRecord_default))]
    ELSE r

PreferredChoices(pkt) ==
    IF pkt.kind = "mdns" /\ extract_resource(pkt.rrs, MdnsRecord_default).ips # {}
    THEN PreferredIps(extract_resource(pkt.rrs, MdnsRecord_default).ips)
    ELSE {NoIp}

\* a UDP datagram arrives: in run's select!, or in the bounded drain, which
\* ends as soon as no query is outstanding
ResolverUdp(pkt) ==
    /\ resolver.pc \in {"run", "drain"}
    /\ resolver.pc = "drain" => now < resolver.drain_start + DRAIN_TIMEOUT
    /\ \E preferred_ip \in PreferredChoices(pkt) :
         LET r == ResolverAfterUdp(resolver, pkt, preferred_ip) IN
         resolver' = IF resolver.pc = "drain" /\ r.dns_map = EmptyMap
                     THEN [r EXCEPT !.pc = "returned"]
                     ELSE r
    /\ UNCHANGED <<routerVars, unitVars, now, globalVars, cfgVars, discVars, tasks, senders, dns_queue>>

\* the timeout around the drain elapses
ResolverDrainTimeout ==
    /\ resolver.pc = "drain"
    /\ now >= resolver.drain_start + DRAIN_TIMEOUT
    /\ resolver' = [resolver EXCEPT !.pc = "returned"]
    /\ UNCHANGED <<routerVars, unitVars, now, globalVars, cfgVars, discVars, tasks, senders, dns_queue>>

\* (mutation of JoinIps) the maps are read with get: nothing is removed
RECURSIVE JoinIpsKeeping(_, _, _, _)
JoinIpsKeeping(host, order, hostname_map, mdns_cache) ==
    IF order = <<>>
    THEN [host |-> host, hostname_map |-> hostname_map, mdns_cache |-> mdns_cache]
    ELSE LET ip == Head(order)
             dns_hit == host.hostname = NoName /\ ip \in DOMAIN hostname_map
             h1 == IF dns_hit THEN [host EXCEPT !.hostname = hostname_map[ip]] ELSE host
             mdns_hit == ip \in DOMAIN mdns_cache
             h2 == IF mdns_hit
                   THEN [h1 EXCEPT
                           !.hostname = IF h1.hostname = NoName THEN mdns_cache[ip].hostname
                                        ELSE @,
                           !.ips = @ \cup mdns_cache[ip].ips]
                   ELSE h1
         IN JoinIpsKeeping(h2, Tail(order), hostname_map, mdns_cache)

\* resolve_hosts on one host: its addresses are tried in the order the copy
\* of host.ips iterates; returns [host, hostname_map, mdns_cache]
RECURSIVE JoinIps(_, _, _, _)
JoinIps(host, order, hostname_map, mdns_cache) ==
    IF order = <<>>
    THEN [host |-> host, hostname_map |-> hostname_map, mdns_cache |-> mdns_cache]
    ELSE LET ip == Head(order)
             dns_hit == host.hostname = NoName /\ ip \in DOMAIN hostname_map
             h1 == IF dns_hit THEN [host EXCEPT !.hostname = hostname_map[ip]] ELSE host
             hm == IF dns_hit THEN Remove(hostname_map, ip) ELSE hostname_map
             mdns_hit == ip \in DOMAIN mdns_cache
             h2 == IF mdns_hit
                   THEN [h1 EXCEPT
                           !.hostname = IF h1.hostname = NoName THEN mdns_cache[ip].hostname
                                        ELSE @,
                           !.ips = @ \cup mdns_cache[ip].ips]
                   ELSE h1
             mc == IF mdns_hit THEN Remove(mdns_cache, ip) ELSE mdns_cache
         IN JoinIps(h2, Tail(order), hm, mc)

\* resolve_hosts: every host list the Join can produce
RECURSIVE resolve_hosts(_, _, _)
resolve_hosts(hs, hostname_map, mdns_cache) ==
    IF hs = <<>> THEN {<<>>}
    ELSE UNION {LET r == JoinIps(Head(hs), order, hostname_map, mdns_cache)
                IN {<<r.host>> \o rest : rest \in resolve_hosts(Tail(hs), r.hostname_map, r.mdns_cache)}
                : order \in Orders(Head(hs).ips)}

\* ---------------------------------------------------------------- discover

\* (mutation of SendersAfterSpawn) discover keeps its own dns_tx
SendersKeepingOriginal(owners) == owners \cup {0}

\* the clones of dns_tx alive once spawn_explorers has returned: the ones the
\* scanner tasks own; the original, moved into spawn_explorers, is dropped
SendersAfterSpawn(owners) == owners

\* (mutation of is_root) the privilege check is skipped
is_root_assumed == TRUE

\* (mutation of dns_enabled) cfg.no_dns is not consulted
dns_always == TRUE

\* (mutation of HostsAfterAwait) a failed scanner task aborts the run's result
HostsAfterAwaitAborting(acc, task) ==
    IF task.outcome = "ok" THEN acc \o task.result ELSE <<>>

\* discover: is_root()
is_root == privileged

\* discover: !cfg.no_dns, the queue and the resolver task are created
dns_enabled == ~no_dns

\* (mutation of HostsAfterAwait) hosts = res where the code has hosts.extend(res)
HostsAfterAwaitReplacing(acc, task) ==
    IF task.outcome = "ok" THEN task.result ELSE acc

\* discover: what awaiting one scanner handle does to `hosts`
HostsAfterAwait(acc, task) ==
    IF task.outcome = "ok" THEN acc \o task.result ELSE acc

\* the tasks spawn_explorers spawns for one interface
TasksOfInterface(entry, has_tx) ==
    (IF IpCollection_is_empty(entry.local) THEN <<>>
     ELSE <<SpawnedTask("local", entry.intf, entry.local, has_tx)>>)
    \o (IF IpCollection_is_empty(entry.routed) THEN <<>>
        ELSE <<SpawnedTask("routed", entry.intf, entry.routed, has_tx)>>)

\* spawn_explorers' handles: the interfaces in the map's iteration order,
\* then the fallback prober for the unmapped remainder, which gets no sender
TasksOfMap(imap, unmapped, order, has_tx) ==
    Concat([i \in 1..Len(order) |-> TasksOfInterface(imap[order[i]], has_tx)])
    \o (IF IpCollection_is_empty(unmapped) THEN <<>>
        ELSE <<SpawnedTask("handshake", NoIntf, unmapped, FALSE)>>)

\* discover up to spawn_explorers: without root the whole target set goes to
\* range_discovery, run inline (kept as tasks[1]); with root the resolver
\* task is spawned unless cfg.no_dns is set
DiscoverStart ==
    /\ dpc = "start"
    /\ IF ~is_root
       THEN /\ dpc' = "inline"
            /\ tasks' = <<SpawnedTask("handshake", NoIntf, targets, FALSE)>>
            /\ UNCHANGED <<senders, resolver>>
       ELSE /\ dpc' = "spawn"
            /\ senders' = IF dns_enabled THEN {0} ELSE {}
            /\ resolver' = IF dns_enabled THEN [resolver EXCEPT !.pc = "spawned"] ELSE resolver
            /\ UNCHANGED tasks
    /\ UNCHANGED <<routerVars, unitVars, now, globalVars, cfgVars, hosts, dres, awaited, dns_queue>>

\* spawn_explorers
DiscoverSpawn ==
    /\ dpc = "spawn"
    /\ \E kernel \in Kernels(interfaces, targets) :
         LET out == map_ips_to_interfaces(interfaces, kernel, targets) IN
         /\ interface_map' = out.interface_map
         /\ unmapped_ips' = out.unmapped_ips
         /\ source_ip' = kernel
         /\ \E order \in Orders(DOMAIN out.interface_map) :
              /\ tasks' = TasksOfMap(out.interface_map, out.unmapped_ips, order, 0 \in senders)
              /\ senders' = SendersAfterSpawn({t \in 1..Len(tasks') : tasks'[t].has_tx})
    /\ route_state' = "mapped"
    /\ dpc' = "await"
    /\ UNCHANGED <<interfaces, targets, unitVars, now, globalVars, cfgVars, hosts, dres, awaited,
                   dns_queue, resolver>>

\* handle.await on the next scanner handle, in spawn order
DiscoverAwait ==
    /\ dpc = "await"
    /\ awaited < Len(tasks)
    /\ tasks[awaited + 1].outcome # "running"
    /\ hosts' = HostsAfterAwait(hosts, tasks[awaited + 1])
    /\ awaited' = awaited + 1
    /\ UNCHANGED <<routerVars, unitVars, now, globalVars, cfgVars, dpc, dres, tasks, dnsVars>>

\* the rest of discover: await the resolver task if there is one, run the
\* Join if it handed back a resolver, return Ok(hosts)
DiscoverJoin ==
    /\ dpc = "await"
    /\ awaited = Len(tasks)
    /\ resolver.pc \in {"none", "failed", "returned"}
    /\ IF resolver.pc = "returned"
       THEN hosts' \in resolve_hosts(hosts, resolver.hostname_map, resolver.mdns_cache)
       ELSE hosts' = hosts
    /\ dpc' = "done"
    /\ dres' = "ok"
    /\ UNCHANGED <<routerVars, unitVars, now, globalVars, cfgVars, awaited, tasks, dnsVars>>

\* without root: discover returns what range_discovery returns
DiscoverReturnInline ==
    /\ dpc = "inline"
    /\ tasks[1].outcome # "running"
    /\ hosts' = tasks[1].result
    /\ dres' = IF tasks[1].outcome = "ok" THEN "ok" ELSE "err"
    /\ dpc' = "done"
    /\ UNCHANGED <<routerVars, unitVars, now, globalVars, cfgVars, awaited, tasks, dnsVars>>

\* ------------------------------------------------------------- environment

\* the deadlines some task is waiting for
PendingTimers ==
    {tasks[t].deadline : t \in {k \in 1..Len(tasks) :
        tasks[k].outcome = "running" /\ tasks[k].kind \in {"local", "routed"}
                                     /\ tasks[k].pc \in {"top", "select"}}}
    \cup {tasks[t].probe_start + PROBE_TIMEOUT : t \in {k \in 1..Len(tasks) :
        tasks[k].outcome = "running" /\ tasks[k].pc = "probe"}}
    \cup (IF resolver.pc = "drain" THEN {resolver.drain_start + DRAIN_TIMEOUT} ELSE {})

\* time passes while something waits for it
Tick(d) ==
    /\ \E deadline \in PendingTimers : deadline > now
    /\ now' = now + d
    /\ UNCHANGED <<routerVars, unitVars, globalVars, cfgVars, discVars, tasks, dnsVars>>

\* the input listener (or any holder of the flag) sets STOP_SIGNAL
SetStop ==
    /\ ~STOP_SIGNAL
    /\ dpc # "done"
    /\ STOP_SIGNAL' = TRUE
    /\ UNCHANGED <<routerVars, unitVars, now, FOUND_HOST_COUNT, IS_LAN_SCAN, cfgVars, discVars, tasks, dnsVars>>

\* a captured frame; op is the ARP operation, a reply unless made by ArpRequest
Frame(src_mac, ethertype, src_ip, dst_ip) ==
    [src_mac |-> src_mac, ethertype |-> ethertype, src_ip |-> src_ip, dst_ip |-> dst_ip,
     op |-> IF ethertype = "Arp" THEN "reply" ELSE "none"]

\* an ARP request (operation 1) with the given sender hardware and protocol
\* address
ArpRequest(src_mac, src_ip) == [Frame(src_mac, "Arp", src_ip, NoIp) EXCEPT !.op = "request"]

Segment(ip, ack, parsed) == [ip |-> ip, ack |-> ack, parsed |-> parsed]

DnsPacket(id, name) == [kind |-> "dns", id |-> id, name |-> name, rrs |-> <<>>]

MdnsPacket(rrs) == [kind |-> "mdns", id |-> 0, name |-> NoName, rrs |-> rrs]

OtherPacket == [kind |-> "other", id |-> 0, name |-> NoName, rrs |-> <<>>]

RR(type, name, ip) == [type |-> type, name |-> name, ip |-> ip]

SendOutcomes == {"sent", "send_err", "build_err"}

\* the runs of discover that are explored: [privileged, no_dns, targets]
Run(p, d, c) == [privileged |-> p, no_dns |-> d, targets |-> compact(c)]

OneLocal == add_range(IpCollection_new, Ipv4Range_new(2, 2))
OneRemote == add_range(IpCollection_new, Ipv4Range_new(6, 6))
TwoRemote == add_single(add_single(IpCollection_new, V4(6)), V6(3))
LocalAndLoopback == add_range(add_range(IpCollection_new, Ipv4Range_new(4, 4)), Ipv4Range_new(7, 7))
SingleAndRange == add_single(add_range(IpCollection_new, Ipv4Range_new(2, 3)), V6(3))

DiscoverRuns ==
    {Run(FALSE, d, c) : d \in BOOLEAN, c \in {SingleAndRange, TwoRemote}}
    \cup {Run(TRUE, TRUE, c) : c \in {OneLocal, TwoRemote, LocalAndLoopback}}
    \cup {Run(TRUE, FALSE, c) : c \in {OneLocal, OneRemote}}

\* what the network may deliver in a run of discover
DiscoverFrames ==
    {Frame("ma", "Arp", V4(2), NoIp), Frame("mb", "Arp", V4(2), NoIp),
     Frame("mc", "Arp", V4(4), NoIp), Frame("m0", "Arp", V4(2), NoIp)}

DiscoverSegments == {Segment(V4(6), 1, TRUE), Segment(V4(4), 0, TRUE)}

DiscoverPackets ==
    {DnsPacket(0, "host-a"),
     MdnsPacket(<<RR("PTR", "printer.local", NoIp), RR("A", NoName, V4(2))>>)}

Init ==
    /\ IdleInit
    /\ UnitIdle
    /\ interfaces = IfTableDisjoint
    /\ IS_LAN_SCAN = FALSE
    /\ \E run \in DiscoverRuns :
         /\ targets = run.targets
         /\ privileged = run.privileged
         /\ no_dns = run.no_dns

\* the steps of scanner task t when the network delivers `frames` and `segments`
TaskNext(t, frames, segments) ==
    \/ LocalStart(t)
    \/ LocalLoopTop(t)
    \/ \E f \in frames : LocalRecv(t, f)
    \/ LocalSendTick(t)
    \/ LocalDeadline(t)
    \/ RoutedStart(t)
    \/ \E seq_num \in 0..MaxSeq, outcome \in SendOutcomes : RoutedSend(t, seq_num, outcome)
    \/ RoutedLoopTop(t)
    \/ \E seg \in segments : RoutedRecv(t, seg)
    \/ RoutedSleep(t)
    \/ HandshakeStart(t)
    \/ HandshakeLoopTop(t)
    \/ \E connect \in {"connected", "refused"} : HandshakeProbeDone(t, connect)
    \/ HandshakeProbeTimeout(t)

ResolverNext ==
    \/ \E started \in BOOLEAN : ResolverStart(started)
    \/ \E emitted \in BOOLEAN : ResolverRecvIp(emitted)
    \/ ResolverClosed
    \/ \E pkt \in DiscoverPackets : ResolverUdp(pkt)
    \/ ResolverDrainTimeout

Next ==
    \/ DiscoverStart
    \/ DiscoverSpawn
    \/ DiscoverAwait
    \/ DiscoverJoin
    \/ DiscoverReturnInline
    \/ \E t \in 1..Len(tasks) : TaskNext(t, DiscoverFrames, DiscoverSegments)
    \/ ResolverNext
    \/ Tick(TickMs)
    \/ SetStop

Spec == Init /\ [][Next]_vars

\* --------------------------------------------------- discover, scheduled

\* tokio polls every spawned task that can make progress, timers fire, and
\* select! picks among its ready branches at random, so a branch that is
\* ready again and again is taken in the end (the deadline of the Local
\* Scanner under a stream of frames)
TaskFairness(frames, segments) ==
    \A t \in 1..MaxTasks :
        /\ WF_vars(TaskNext(t, frames, segments))
        /\ SF_vars(LocalDeadline(t))

FairRuns ==
    {Run(FALSE, TRUE, TwoRemote), Run(TRUE, TRUE, OneLocal), Run(TRUE, FALSE, OneRemote)}

FairInit ==
    /\ IdleInit
    /\ UnitIdle
    /\ interfaces = IfTableDisjoint
    /\ IS_LAN_SCAN = FALSE
    /\ \E run \in FairRuns :
         /\ targets = run.targets
         /\ privileged = run.privileged
         /\ no_dns = run.no_dns

FairSpec ==
    /\ FairInit
    /\ [][Next]_vars
    /\ WF_vars(DiscoverStart) /\ WF_vars(DiscoverSpawn) /\ WF_vars(DiscoverAwait)
    /\ WF_vars(DiscoverJoin) /\ WF_vars(DiscoverReturnInline)
    /\ TaskFairness(DiscoverFrames, DiscoverSegments)
    /\ WF_vars(\E started \in BOOLEAN : ResolverStart(started))
    /\ WF_vars(\E emitted \in BOOLEAN : ResolverRecvIp(emitted))
    /\ WF_vars(ResolverClosed)
    /\ WF_vars(ResolverDrainTimeout)
    /\ WF_vars(Tick(TickMs))

\* ------------------------------------------------------- scanners alone

\* the scanner tasks of privileged runs without DNS, as spawn_explorers
\* leaves them, STOP_SIGNAL unset and never set
ScanTargets ==
    {compact(add_range(IpCollection_new, Ipv4Range_new(2, 3))), compact(TwoRemote)}

ScanFrames ==
    {Frame("ma", "Arp", V4(2), NoIp), Frame("mb", "Arp", V4(3), NoIp),
     Frame("m0", "Arp", V4(2), NoIp), Frame("ma", "Other", NoIp, NoIp),
     Frame("mc", "Arp", V4(4), NoIp)}

ScanSegments ==
    {Segment(V4(6), 1, TRUE), Segment(V4(6), 0, FALSE), Segment(V4(4), 0, TRUE)}

ScanInit ==
    /\ UnitIdle
    /\ interfaces = IfTableDisjoint
    /\ targets \in ScanTargets
    /\ IS_LAN_SCAN = FALSE /\ privileged = TRUE /\ no_dns = TRUE
    /\ now = 0 /\ STOP_SIGNAL = FALSE /\ FOUND_HOST_COUNT = 0
    /\ hosts = <<>> /\ dres = "none" /\ awaited = 0
    /\ senders = {} /\ dns_queue = <<>> /\ resolver = ResolverIdle
    /\ route_state = "mapped" /\ dpc = "await"
    /\ \E kernel \in Kernels(interfaces, targets) :
         LET out == map_ips_to_interfaces(interfaces, kernel, targets) IN
         /\ interface_map = out.interface_map
         /\ unmapped_ips = out.unmapped_ips
         /\ source_ip = kernel
         /\ \E order \in Orders(DOMAIN out.interface_map) :
              tasks = TasksOfMap(out.interface_map, out.unmapped_ips, order, FALSE)

ScanNext ==
    \/ \E t \in 1..Len(tasks) : TaskNext(t, ScanFrames, ScanSegments)
    \/ Tick(FineTickMs)

ScanSpec ==
    /\ ScanInit
    /\ [][ScanNext]_vars
    /\ TaskFairness(ScanFrames, ScanSegments)
    /\ WF_vars(Tick(FineTickMs))

\* ------------------------------------------------------ a LAN-wide scan

\* what to_collection makes of the target "lan" on eth0 of IfTableDisjoint:
\* the usable hosts of its IPv4 network
LanTargets == compact(add_range(IpCollection_new, Ipv4Range_new(1, 2)))

\* the replies of one neighbour, over IPv6 and over ARP
LanFrames ==
    {Frame("ma", "Ipv6", V6(2), V6(1)), Frame("ma", "Arp", V4(2), NoIp)}

\* an mDNS announcement of the neighbour with IPv4 and IPv6 addresses
LanPackets ==
    {MdnsPacket(<<RR("A", NoName, V4(2)), RR("A", NoName, V4(3)), RR("AAAA", NoName, V6(3))>>)}

LanInit ==
    /\ IdleInit
    /\ UnitIdle
    /\ interfaces = IfTableDisjoint
    /\ targets = LanTargets
    /\ IS_LAN_SCAN = TRUE
    /\ privileged = TRUE
    /\ no_dns = FALSE

LanNext ==
    \/ DiscoverStart
    \/ DiscoverSpawn
    \/ DiscoverAwait
    \/ DiscoverJoin
    \/ \E t \in 1..Len(tasks) :
          \/ LocalStart(t)
          \/ LocalLoopTop(t)
          \/ \E f \in LanFrames : LocalRecv(t, f)
          \/ LocalSendTick(t)
          \/ LocalDeadline(t)
    \/ \E started \in BOOLEAN : ResolverStart(started)
    \/ \E emitted \in BOOLEAN : ResolverRecvIp(emitted)
    \/ ResolverClosed
    \/ \E pkt \in LanPackets : ResolverUdp(pkt)
    \/ ResolverDrainTimeout
    \/ Tick(TickMs)

LanSpec == LanInit /\ [][LanNext]_vars

\* ------------------------------------------------- a Local Scanner alone

\* the targets of these runs, on the IPv4 network of eth0
LocalTargets ==
    {compact(add_range(IpCollection_new, Ipv4Range_new(2, 2))),
     compact(add_range(IpCollection_new, Ipv4Range_new(2, 3)))}
\* what eth0 captures: a neighbour "ma" answering over ARP and sending IPv6
\* to our link-local address, a neighbour "mb" answering over ARP from the
\* address next to it, a frame from outside the subnet, and an ARP request
\* "ma" broadcasts on its own account
LocalFrames ==
    {Frame("ma", "Arp", V4(2), NoIp), Frame("ma", "Ipv6", V6(2), V6(1)),
     Frame("mb", "Arp", V4(3), NoIp), Frame("mc", "Arp", V4(6), NoIp),
     ArpRequest("ma", V4(2))}

\* one Local Scanner task on eth0 as spawn_explorers leaves it, holding a
\* clone of dns_tx, the resolver running; the flag as the parser left it
LocalInit ==
    /\ UnitIdle
    /\ interfaces = IfTableDisjoint
    /\ targets \in LocalTargets
    /\ IS_LAN_SCAN \in BOOLEAN
    /\ privileged = TRUE /\ no_dns = FALSE
    /\ now = 0 /\ STOP_SIGNAL = FALSE /\ FOUND_HOST_COUNT = 0
    /\ hosts = <<>> /\ dres = "none" /\ awaited = 0
    /\ senders = {1} /\ dns_queue = <<>>
    /\ resolver = [ResolverIdle EXCEPT !.pc = "run"]
    /\ route_state = "mapped" /\ dpc = "await"
    /\ interface_map = EmptyMap
    /\ unmapped_ips = IpCollection_new
    /\ source_ip = EmptyMap
    /\ tasks = <<SpawnedTask("local", interfaces[2], targets, TRUE)>>

LocalNext ==
    \/ LocalStart(1)
    \/ LocalLoopTop(1)
    \/ \E f \in LocalFrames : LocalRecv(1, f)
    \/ LocalSendTick(1)
    \/ LocalDeadline(1)
    \/ Tick(TickMs)
    \/ SetStop

SpecLocal == LocalInit /\ [][LocalNext]_vars

\* ------------------------------------------------ a Routed Scanner alone

\* the targets handed to RoutedScanner::new: two singles of different
\* families, or a range and a single
RoutedTargets ==
    {add_single(add_single(IpCollection_new, V4(6)), V6(3)),
     add_single(add_range(IpCollection_new, Ipv4Range_new(6, 7)), V6(3))}

\* one Routed Scanner task as spawn_explorers leaves it, on eth0 (IPv4 and
\* IPv6 addresses) or on wlan0 (an IPv4 address only)
RoutedInit ==
    /\ UnitIdle
    /\ interfaces = IfTableDisjoint
    /\ targets \in RoutedTargets
    /\ IS_LAN_SCAN = FALSE
    /\ privileged = TRUE /\ no_dns = FALSE
    /\ now = 0 /\ STOP_SIGNAL = FALSE /\ FOUND_HOST_COUNT = 0
    /\ hosts = <<>> /\ dres = "none" /\ awaited = 0
    /\ senders = {1} /\ dns_queue = <<>>
    /\ resolver = [ResolverIdle EXCEPT !.pc = "run"]
    /\ route_state = "mapped" /\ dpc = "await"
    /\ interface_map = EmptyMap
    /\ unmapped_ips = IpCollection_new
    /\ source_ip = EmptyMap
    /\ \E i \in {2, 3} : tasks = <<SpawnedTask("routed", interfaces[i], targets, TRUE)>>

RoutedNext ==
    \/ RoutedStart(1)
    \/ \E seq_num \in 0..MaxSeq, outcome \in SendOutcomes : RoutedSend(1, seq_num, outcome)
    \/ RoutedLoopTop(1)
    \/ \E seg \in ScanSegments : RoutedRecv(1, seg)
    \/ RoutedSleep(1)
    \/ Tick(FineTickMs)
    \/ SetStop

SpecRouted == RoutedInit /\ [][RoutedNext]_vars

\* -------------------------------------------- a Hostname Resolver alone

\* no run of the resolver alone is sent more addresses than this: enough
\* for id_counter to come round
MaxReports == TransIdSpace + 1

\* the addresses the scanners report: two queryable ones and a link-local
\* IPv6 address, which is not
ReportedIps == {V4(2), V4(3), V6(2)}

\* the PTR name the DNS server holds for an address
NameOf(ip) == IF ip = V4(2) THEN "host-a" ELSE "host-b"

\* a scanner finds a host: increment_host_count, then tx.send(ip)
ScannerReports(ip) ==
    /\ senders # {}
    /\ FOUND_HOST_COUNT < MaxReports
    /\ Len(dns_queue) < 2
    /\ FOUND_HOST_COUNT' = FOUND_HOST_COUNT + 1
    /\ dns_queue' = QueueAfterSend(TRUE, ip)
    /\ UNCHANGED <<routerVars, unitVars, now, STOP_SIGNAL, IS_LAN_SCAN, cfgVars, discVars, tasks, senders, resolver>>

\* the scanners end and discover drops its own dns_tx: no sender is left
ScannersDone ==
    /\ senders # {}
    /\ senders' = {}
    /\ UNCHANGED <<routerVars, unitVars, now, globalVars, cfgVars, discVars, tasks, dns_queue, resolver>>

\* the DNS server answers a query that was sent, at any later time
DnsAnswers ==
    \E i \in 1..Len(resolver.queries) :
        ResolverUdp(DnsPacket(resolver.queries[i][1], NameOf(resolver.queries[i][2])))

\* an mDNS announcement with two PTR names
TwoNames ==
    MdnsPacket(<<RR("PTR", "printer.local", NoIp), RR("PTR", "2.0.0.10.in-addr.arpa", NoIp),
                 RR("PTR", "scanner.local", NoIp), RR("A", NoName, V4(2))>>)

ResolverAloneInit ==
    /\ UnitIdle
    /\ interfaces = IfTableDisjoint
    /\ targets = add_range(IpCollection_new, Ipv4Range_new(2, 3))
    /\ IS_LAN_SCAN = FALSE
    /\ privileged = TRUE /\ no_dns = FALSE
    /\ now = 0 /\ STOP_SIGNAL = FALSE /\ FOUND_HOST_COUNT = 0
    /\ hosts = <<>> /\ dres = "none" /\ awaited = 0
    /\ senders = {1} /\ dns_queue = <<>>
    /\ resolver = [ResolverIdle EXCEPT !.pc = "spawned"]
    /\ route_state = "mapped" /\ dpc = "await"
    /\ interface_map = EmptyMap
    /\ unmapped_ips = IpCollection_new
    /\ source_ip = EmptyMap
    /\ tasks = <<>>

ResolverAloneNext ==
    \/ \E started \in BOOLEAN : ResolverStart(started)
    \/ \E ip \in ReportedIps : ScannerReports(ip)
    \/ ScannersDone
    \/ \E emitted \in BOOLEAN : ResolverRecvIp(emitted)
    \/ ResolverClosed
    \/ DnsAnswers
    \/ \E pkt \in {TwoNames, OtherPacket} : ResolverUdp(pkt)
    \/ ResolverDrainTimeout
    \/ Tick(FineTickMs)

SpecResolver == ResolverAloneInit /\ [][ResolverAloneNext]_vars

\* ------------------------------------------------------- a Host on its own

\* the samples fed to a Host (ms)
RttSamples == {1, 2}
\* no run feeds a Host more samples than this between two set_rtts
MaxSamples == 12

\* a deque of n samples, the first k of them 1 and the rest 2
Stair(n, k) == [i \in 1..n |-> IF i <= k THEN 1 ELSE 2]

\* the deques handed to set_rtts: short ones, and ones longer than the capacity
RttDeques ==
    {<<>>} \cup {<<a>> : a \in RttSamples} \cup {<<a, b>> : a, b \in RttSamples}
    \cup {Stair(n, k) : n \in (RTT_HISTORY_CAP + 1)..MaxSamples, k \in 0..MaxSamples}

Host_add_rtt ==
    /\ Len(samples) < MaxSamples
    /\ \E rtt \in RttSamples :
         /\ a_host' = add_rtt(a_host, rtt)
         /\ samples' = Append(samples, rtt)
    /\ UNCHANGED <<routerVars, a_collection, coll_op, raw, yielded, measured, inputs,
                   lan_network, a_timer, timer_log,
                   now, globalVars, cfgVars, discVars, tasks, dnsVars>>

Host_set_rtts ==
    /\ \E rtts \in RttDeques :
         /\ a_host' = set_rtts(a_host, rtts)
         /\ samples' = rtts
    /\ UNCHANGED <<routerVars, a_collection, coll_op, raw, yielded, measured, inputs,
                   lan_network, a_timer, timer_log,
                   now, globalVars, cfgVars, discVars, tasks, dnsVars>>

HostInit ==
    /\ IdleInit
    /\ interfaces = IfTableDisjoint
    /\ targets = IpCollection_new
    /\ source_ip = EmptyMap
    /\ IS_LAN_SCAN = FALSE
    /\ privileged = TRUE
    /\ no_dns = TRUE
    /\ a_host \in {Host_new(ip) : ip \in {V4(2), V6(1)}}
    /\ samples = <<>>
    /\ TimerIdle
    /\ CollectionIdle

HostNext == Host_add_rtt \/ Host_set_rtts

SpecHost == HostInit /\ [][HostNext]_vars

\* ------------------------------------------------- a ScanTimer on its own

\* the clock of these runs stops here
MaxClock == 7
\* the durations handed to ScanTimer::new, in clock steps
TimerTotals == {3, 5}
TimerMinRuntimes == {0, 2, 6}
TimerSilences == {0, 1, 2}

\* ScanTimer::mark_seen at the present instant
Timer_mark_seen ==
    /\ timer_log.op # "none"
    /\ a_timer' = mark_seen(a_timer, now)
    /\ timer_log' = [timer_log EXCEPT !.op = "mark_seen", !.seen = now]
    /\ UNCHANGED <<routerVars, a_host, samples, a_collection, coll_op, raw, yielded, measured,
                   inputs, lan_network, now, globalVars, cfgVars, discVars, tasks, dnsVars>>

\* ScanTimer::is_expired at the present instant
Timer_is_expired ==
    /\ timer_log.op # "none"
    /\ timer_log' = [timer_log EXCEPT !.op = "is_expired", !.asked = now,
                                      !.expired = is_expired(a_timer, now)]
    /\ UNCHANGED <<routerVars, a_host, samples, a_collection, coll_op, raw, yielded, measured,
                   inputs, lan_network, a_timer, now, globalVars, cfgVars, discVars, tasks, dnsVars>>

\* time passes
Timer_clock ==
    /\ now < MaxClock
    /\ now' = now + 1
    /\ UNCHANGED <<routerVars, unitVars, globalVars, cfgVars, discVars, tasks, dnsVars>>

\* ScanTimer::new at a first instant
TimerInit ==
    /\ route_state = "idle"
    /\ interface_map = EmptyMap
    /\ unmapped_ips = IpCollection_new
    /\ source_ip = EmptyMap
    /\ interfaces = IfTableDisjoint
    /\ targets = IpCollection_new
    /\ STOP_SIGNAL = FALSE
    /\ FOUND_HOST_COUNT = 0
    /\ IS_LAN_SCAN = FALSE
    /\ privileged = TRUE
    /\ no_dns = TRUE
    /\ dpc = "start"
    /\ hosts = <<>>
    /\ dres = "none"
    /\ awaited = 0
    /\ tasks = <<>>
    /\ senders = {}
    /\ dns_queue = <<>>
    /\ resolver = ResolverIdle
    /\ a_host = NoHost
    /\ samples = <<>>
    /\ CollectionIdle
    /\ now \in {0, 1}
    /\ \E total \in TimerTotals, min \in TimerMinRuntimes, silence \in TimerSilences :
         /\ a_timer = ScanTimer_new(now, total, min, silence)
         /\ timer_log = [op |-> "new", made |-> now, total |-> total, min |-> min,
                         silence |-> silence, seen |-> now, asked |-> now, expired |-> FALSE]

TimerNext == Timer_mark_seen \/ Timer_is_expired \/ Timer_clock

SpecTimer == TimerInit /\ [][TimerNext]_vars

\* ----------------------------------------------- an IpCollection on its own

\* the addresses the ranges of these runs start and end at
Corners == {0, 1, 2, MaxV4 - 1, MaxV4}
CornerRanges == {Ipv4Range_new(s, e) : s, e \in Corners}
\* the singles of these runs
CollSingles == {V4(2), V4(MaxV4), V6(3)}
\* the collections handed to extend
CollOthers ==
    {add_single(add_range(IpCollection_new, Ipv4Range_new(1, 2)), V4(2)),
     add_single(IpCollection_new, V4(MaxV4))}

Coll_add_range ==
    /\ coll_op = "new"
    /\ Len(a_collection.ranges) < MaxRanges
    /\ \E r \in CornerRanges : a_collection' = add_range(a_collection, r)
    /\ UNCHANGED <<routerVars, a_host, samples, lan_network, a_timer, timer_log, inputs, coll_op, raw, yielded, measured,
                   now, globalVars, cfgVars, discVars, tasks, dnsVars>>

Coll_add_single ==
    /\ coll_op = "new"
    /\ \E ip \in CollSingles : a_collection' = add_single(a_collection, ip)
    /\ UNCHANGED <<routerVars, a_host, samples, lan_network, a_timer, timer_log, inputs, coll_op, raw, yielded, measured,
                   now, globalVars, cfgVars, discVars, tasks, dnsVars>>

Coll_extend ==
    /\ coll_op = "new"
    /\ \E other \in CollOthers :
         /\ Len(a_collection.ranges) + Len(other.ranges) <= MaxRanges
         /\ a_collection' = extend(a_collection, other)
    /\ UNCHANGED <<routerVars, a_host, samples, lan_network, a_timer, timer_log, inputs, coll_op, raw, yielded, measured,
                   now, globalVars, cfgVars, discVars, tasks, dnsVars>>

\* compact(), on a collection being built or on one just compacted
Coll_compact ==
    /\ coll_op \in {"new", "compact"}
    /\ raw' = a_collection
    /\ a_collection' = compact(a_collection)
    /\ coll_op' = IF coll_op = "compact" THEN "compact_again" ELSE "compact"
    /\ UNCHANGED <<routerVars, a_host, samples, lan_network, a_timer, timer_log, inputs, yielded, measured,
                   now, globalVars, cfgVars, discVars, tasks, dnsVars>>

\* iter(): the ranges in order, then the singles that pass the filter, in the
\* hash set's order
Coll_iter ==
    /\ coll_op \in {"new", "compact"}
    /\ \E order \in Orders(IterSingles(a_collection)) :
         yielded' = RangesInOrder(a_collection) \o order
    /\ coll_op' = "iter"
    /\ UNCHANGED <<routerVars, a_host, samples, lan_network, a_timer, timer_log, inputs, a_collection, raw, measured,
                   now, globalVars, cfgVars, discVars, tasks, dnsVars>>

\* into_iter(): the singles in the hash set's order, then the ranges in order
Coll_into_iter ==
    /\ coll_op \in {"new", "compact"}
    /\ \E order \in Orders(a_collection.singles) :
         yielded' = order \o RangesInOrder(a_collection)
    /\ coll_op' = "into_iter"
    /\ UNCHANGED <<routerVars, a_host, samples, lan_network, a_timer, timer_log, inputs, a_collection, raw, measured,
                   now, globalVars, cfgVars, discVars, tasks, dnsVars>>

\* len(), in a build with or without overflow checks
Coll_len ==
    /\ coll_op \in {"new", "compact"}
    /\ \E overflow_checks \in BOOLEAN :
         IF /\ overflow_checks
            /\ \E i \in 1..Len(a_collection.ranges) : Ipv4Range_len_overflows(a_collection.ranges[i])
         THEN coll_op' = "panic" /\ measured' = 0
         ELSE coll_op' = "len" /\ measured' = IpCollection_len(a_collection)
    /\ UNCHANGED <<routerVars, a_host, samples, lan_network, a_timer, timer_log, inputs, a_collection, raw, yielded,
                   now, globalVars, cfgVars, discVars, tasks, dnsVars>>

CollectionInit ==
    /\ IdleInit
    /\ UnitIdle
    /\ interfaces = IfTableDisjoint
    /\ targets = IpCollection_new
    /\ IS_LAN_SCAN = FALSE
    /\ privileged = TRUE
    /\ no_dns = TRUE

CollectionNext ==
    \/ Coll_add_range
    \/ Coll_add_single
    \/ Coll_extend
    \/ Coll_compact
    \/ Coll_iter
    \/ Coll_into_iter
    \/ Coll_len

SpecCollection == CollectionInit /\ [][CollectionNext]_vars

\* ------------------------------------------------------------ Target Parser

\* the scaled dotted notation: an address is written as NumOctets octets, each
\* below OctetBase (4 octets below 256 in the program)
OctetBase == 2
NumOctets == 3
\* the bits of an address; an octet of the scaled notation holds one
PrefixBits == NumOctets

RECURSIVE Pow(_, _)
Pow(b, e) == IF e = 0 THEN 1 ELSE b * Pow(b, e - 1)

\* octet_str.parse::<u8>() succeeds on every part
ParsesAsOctets(os) == \A i \in 1..Len(os) : os[i] \in 0..(OctetBase - 1)

\* str::parse::<Ipv4Addr>() succeeds
ParsesAsIpv4(os) == Len(os) = NumOctets /\ ParsesAsOctets(os)

\* Ipv4Addr::from(octets)
RECURSIVE FromOctets(_)
FromOctets(os) ==
    IF os = <<>> THEN 0
    ELSE FromOctets(SubSeq(os, 1, Len(os) - 1)) * OctetBase + os[Len(os)]

\* a token: the dotted part before the separator, the separator ("-", "/" or
\* none), the dotted part after it; or an IPv6 address; or another word
Tok(head, sep, tail) == [head |-> head, sep |-> sep, tail |-> tail, v6 |-> NoIp, word |-> ""]
TokV6(ip) == [head |-> <<>>, sep |-> "", tail |-> <<>>, v6 |-> ip, word |-> ""]
TokWord(w) == [head |-> <<>>, sep |-> "", tail |-> <<>>, v6 |-> NoIp, word |-> w]

Failed == [ok |-> FALSE]

\* parse_range_end_addr: a full address, or the partial octets laid over the
\* end of the start address
parse_range_end_addr(end_str, start_octets) ==
    IF ParsesAsIpv4(end_str) THEN [ok |-> TRUE, addr |-> FromOctets(end_str)]
    ELSE IF end_str = <<>> \/ ~ParsesAsOctets(end_str) THEN Failed
    ELSE IF Len(end_str) > NumOctets THEN Failed
    ELSE LET start_index == NumOctets - Len(end_str)
             end_octets == [i \in 1..NumOctets |->
                               IF i > start_index THEN end_str[i - start_index]
                               ELSE start_octets[i]]
         IN [ok |-> TRUE, addr |-> FromOctets(end_octets)]

\* parse_ip_range on a token with "-"
parse_ip_range(tok) ==
    IF ~ParsesAsIpv4(tok.head) THEN Failed
    ELSE LET e == parse_range_end_addr(tok.tail, tok.head) IN
         IF ~e.ok THEN Failed
         ELSE [ok |-> TRUE, range |-> Ipv4Range_new(FromOctets(tok.head), e.addr)]

\* range::cidr_range: network() clears the host bits, broadcast() sets them
cidr_range(ip, prefix) ==
    IF prefix > PrefixBits THEN Failed
    ELSE LET size == Pow(2, PrefixBits - prefix)
             network == (ip \div size) * size
         IN [ok |-> TRUE, range |-> Ipv4Range_new(network, network + size - 1)]

\* parse_cidr_range on a token with "/": the prefix is one number
parse_cidr_range(tok) ==
    IF ~ParsesAsIpv4(tok.head) \/ Len(tok.tail) # 1 THEN Failed
    ELSE cidr_range(FromOctets(tok.head), tok.tail[1])

\* str::eq_ignore_ascii_case against the two keywords
LanSpellings == {"lan", "LAN", "Lan"}
VpnSpellings == {"vpn", "VPN"}

\* u32::saturating_sub(1)
saturating_sub1(x) == IF x = 0 THEN 0 ELSE x - 1

\* Ipv4Network::network() and ::broadcast(): the host bits cleared, and set
network(net) ==
    LET size == Pow(2, PrefixBits - net.prefix) IN (net.ip \div size) * size
broadcast(net) == network(net) + Pow(2, PrefixBits - net.prefix) - 1

\* resolve_lan with the network and broadcast addresses kept in the range
resolve_lan_unstripped(c) ==
    IF lan_network.found # "some" THEN [ok |-> FALSE, collection |-> c, stored |-> FALSE, panicked |-> FALSE]
    ELSE [ok |-> TRUE, stored |-> TRUE, panicked |-> FALSE,
          collection |-> add_range(c, Ipv4Range_new(network(lan_network),
                                                    broadcast(lan_network)))]

\* resolve_lan: the LAN network without its network and broadcast addresses,
\* and IS_LAN_SCAN stored; the whole network, and nothing stored, when that
\* leaves no address
resolve_lan(c) ==
    IF lan_network.found # "some" THEN [ok |-> FALSE, collection |-> c, stored |-> FALSE, panicked |-> FALSE]
    ELSE LET net_u32 == network(lan_network)
             broadcast_u32 == broadcast(lan_network)
             start_u32 == saturating_add1(net_u32)
             end_u32 == saturating_sub1(broadcast_u32)
         IN IF start_u32 <= end_u32
            THEN [ok |-> TRUE, stored |-> TRUE, panicked |-> FALSE,
                  collection |-> add_range(c, Ipv4Range_new(start_u32, end_u32))]
            ELSE [ok |-> TRUE, stored |-> FALSE, panicked |-> FALSE,
                  collection |-> add_range(c, Ipv4Range_new(net_u32, broadcast_u32))]

\* parse_as_target: Some(Host), Some(Range), None (ok with no target), or Err
parse_as_target(tok) ==
    IF tok.v6 # NoIp THEN [ok |-> TRUE, target |-> "host", ip |-> tok.v6]
    ELSE IF tok.word = "" /\ tok.sep = "" /\ ParsesAsIpv4(tok.head)
    THEN [ok |-> TRUE, target |-> "host", ip |-> V4(FromOctets(tok.head))]
    ELSE IF tok.sep = "-"
    THEN LET r == parse_ip_range(tok) IN
         IF r.ok THEN [ok |-> TRUE, target |-> "range", range |-> r.range] ELSE Failed
    ELSE IF tok.sep = "/"
    THEN LET r == parse_cidr_range(tok) IN
         IF r.ok THEN [ok |-> TRUE, target |-> "range", range |-> r.range] ELSE Failed
    ELSE [ok |-> TRUE, target |-> "none"]

\* the result of a parsing step that returned an error
ParseErr(c) == [ok |-> FALSE, collection |-> c, stored |-> FALSE, panicked |-> FALSE]
\* the result of a parsing step that added nothing
ParseOk(c) == [ok |-> TRUE, collection |-> c, stored |-> FALSE, panicked |-> FALSE]

\* the Target::Range arm of parse_single_into: range.len() is an argument of
\* the info! event, evaluated when the event is enabled; `traps` says that it
\* is and that the build checks overflow
AddParsedRange(c, range, traps) ==
    IF traps /\ Ipv4Range_len_overflows(range)
    THEN [ParseErr(c) EXCEPT !.panicked = TRUE]
    ELSE ParseOk(add_range(c, range))

\* parse_single_into: the collection with the token's target added and whether
\* IS_LAN_SCAN was stored, or an error ("vpn", a token that is no target, a
\* malformed range or block, "lan" without a LAN network)
parse_single_into(tok, c, traps) ==
    IF tok.word \in LanSpellings THEN resolve_lan(c)
    ELSE IF tok.word \in VpnSpellings THEN ParseErr(c)
    ELSE LET t == parse_as_target(tok) IN
         IF ~t.ok THEN ParseErr(c)
         ELSE IF t.target = "host" THEN ParseOk(add_single(c, t.ip))
         ELSE IF t.target = "range" THEN AddParsedRange(c, t.range, traps)
         ELSE ParseErr(c)

\* parse_many_into: the tokens in order, the first error ends it; what was
\* stored in the static before the error stays stored
RECURSIVE parse_many_into(_, _, _)
parse_many_into(toks, c, traps) ==
    IF toks = <<>> THEN ParseOk(c)
    ELSE LET r == parse_single_into(Head(toks), c, traps) IN
         IF ~r.ok THEN r
         ELSE [parse_many_into(Tail(toks), r.collection, traps) EXCEPT !.stored = @ \/ r.stored]

\* the loop of to_collection: an input is split at its commas, blank inputs are skipped
RECURSIVE ParseInputs(_, _, _)
ParseInputs(ins, c, traps) ==
    IF ins = <<>> THEN ParseOk(c)
    ELSE LET r == parse_many_into(Head(ins), c, traps) IN
         IF ~r.ok THEN r
         ELSE [ParseInputs(Tail(ins), r.collection, traps) EXCEPT !.stored = @ \/ r.stored]

\* to_collection, in a build with or without overflow checks, with the info
\* events enabled or not
to_collection ==
    /\ coll_op = "new"
    /\ \E overflow_checks, info_enabled \in BOOLEAN :
         LET r == ParseInputs(inputs, IpCollection_new, overflow_checks /\ info_enabled)
             compacted == compact(r.collection)
         IN /\ IS_LAN_SCAN' = (IS_LAN_SCAN \/ r.stored)
            /\ IF r.panicked
               THEN /\ coll_op' = "panic"
                    /\ UNCHANGED <<a_collection, raw, measured>>
               ELSE IF ~r.ok \/ IpCollection_is_empty(r.collection)
               THEN /\ coll_op' = "err"
                    /\ UNCHANGED <<a_collection, raw, measured>>
               ELSE /\ raw' = r.collection
                    /\ a_collection' = compacted
                    /\ IF /\ overflow_checks
                          /\ \E i \in 1..Len(compacted.ranges) :
                                Ipv4Range_len_overflows(compacted.ranges[i])
                       THEN coll_op' = "panic" /\ measured' = 0
                       ELSE coll_op' = "parsed" /\ measured' = IpCollection_len(compacted)
    /\ UNCHANGED <<routerVars, a_host, samples, lan_network, a_timer, timer_log, yielded, inputs,
                   now, STOP_SIGNAL, FOUND_HOST_COUNT, cfgVars, discVars, tasks, dnsVars>>

\* the tokens of these runs (a.b.c is the scaled dotted notation)
ParserTokens ==
    {Tok(<<0, 1, 0>>, "", <<>>), Tok(<<1, 1, 1>>, "", <<>>), TokV6(V6(3)),
     Tok(<<0, 0, 1>>, "-", <<1, 0>>), Tok(<<0, 1, 0>>, "-", <<1>>),
     Tok(<<1, 0, 0>>, "-", <<0, 0, 1>>), Tok(<<0, 0, 0>>, "-", <<1, 1, 1>>),
     Tok(<<1, 1, 0>>, "-", <<>>), Tok(<<0, 1, 0>>, "-", <<1, 1, 1, 1>>),
     Tok(<<0, 1, 0>>, "-", <<OctetBase>>),
     Tok(<<0, 1, 1>>, "/", <<2>>), Tok(<<1, 0, 0>>, "/", <<1>>), Tok(<<0, 0, 0>>, "/", <<1>>),
     Tok(<<0, 0, 0>>, "/", <<0>>), Tok(<<0, 1, 0>>, "/", <<PrefixBits>>),
     Tok(<<0, 1, 0>>, "/", <<PrefixBits + 1>>),
     Tok(<<0, 1>>, "", <<>>), TokWord("vpn"), TokWord("VPN"), TokWord("router"),
     TokWord("lan"), TokWord("Lan")}

\* an input string: blank, one token, or tokens separated by commas
InputStrings ==
    {<<>>} \cup {<<t>> : t \in ParserTokens}
    \cup {<<Tok(<<0, 0, 1>>, "", <<>>), Tok(<<0, 1, 0>>, "", <<>>)>>,
          <<Tok(<<1, 0, 1>>, "", <<>>), Tok(<<0, 0, 1>>, "-", <<1, 0>>), Tok(<<1, 1, 0>>, "/", <<2>>)>>,
          <<Tok(<<0, 1, 1>>, "", <<>>), TokWord("router")>>,
          <<TokWord("lan"), TokWord("vpn")>>}

\* no call of to_collection is given more strings than this
MaxInputs == 2

\* the interface address and prefix of the LAN networks of these runs
LanNetworks ==
    {[found |-> "some", ip |-> ip, prefix |-> p] : ip \in {2, 5}, p \in 0..PrefixBits}

RECURSIVE InputLists(_)
InputLists(n) ==
    IF n = 0 THEN {<<>>}
    ELSE InputLists(n - 1) \cup
         {Append(l, i) : l \in {k \in InputLists(n - 1) : Len(k) = n - 1}, i \in InputStrings}

ParserInit ==
    /\ IdleInit
    /\ interfaces = IfTableDisjoint
    /\ targets = IpCollection_new
    /\ IS_LAN_SCAN = FALSE
    /\ privileged = TRUE
    /\ no_dns = TRUE
    /\ a_host = NoHost
    /\ samples = <<>>
    /\ a_collection = IpCollection_new
    /\ coll_op = "new"
    /\ raw = IpCollection_new
    /\ yielded = <<>>
    /\ measured = 0
    /\ inputs \in InputLists(MaxInputs)
    /\ lan_network \in LanNetworks \cup {NoLan, LanErr}
    /\ TimerIdle

ParserNext == to_collection

SpecParser == ParserInit /\ [][ParserNext]_vars

\* ================================================================== claims

\* the host lists of the scanner tasks that succeeded, in spawn order
OkResults ==
    Concat([t \in 1..Len(tasks) |->
               IF tasks[t].outcome = "ok" THEN tasks[t].result ELSE <<>>])

\* h is g as a scanner produced it, possibly enriched by the Join phase
SameFinding(h, g) ==
    /\ h.primary_ip = g.primary_ip
    /\ h.mac = g.mac
    /\ h.rtt_history = g.rtt_history
    /\ g.ips \subseteq h.ips

HostnamesUnset == \A i \in 1..Len(hosts) : hosts[i].hostname = NoName

\* C1: the host list discover returns never holds two hosts with the same
\* primary_ip.
C1_Deduplicated ==
    dpc = "done" =>
        \A i, j \in 1..Len(hosts) : i # j => hosts[i].primary_ip # hosts[j].primary_ip

\* the result a scanner hands back when it leaves its loop now
Accumulated(task, result) ==
    IF task.kind = "local"
    THEN /\ Len(result) = Cardinality(DOMAIN task.hosts_map)
         /\ {result[i] : i \in 1..Len(result)} = {task.hosts_map[m] : m \in DOMAIN task.hosts_map}
    ELSE IF task.kind = "routed"
    THEN /\ Len(result) = Cardinality(DOMAIN task.responded_ips)
         /\ {result[i].primary_ip : i \in 1..Len(result)} = DOMAIN task.responded_ips
    ELSE result = task.result

TaskRunning(t) == t \in 1..Len(tasks) /\ tasks[t].outcome = "running"

AllTasksFinished == \A t \in 1..Len(tasks) : tasks[t].outcome # "running"

\* C2: a scanner loop that reaches its loop-top check while STOP_SIGNAL is set
\* leaves the loop there and returns Ok with what it has accumulated; discover
\* never returns an error, and once STOP_SIGNAL is set discover returns.
C2_StopEndsScan ==
    /\ [][\A t \in 1..Len(tasks) :
            (/\ STOP_SIGNAL
             /\ tasks[t].outcome = "running" /\ tasks[t].pc = "top"
             /\ tasks'[t] # tasks[t])
            => (tasks'[t].outcome = "ok" /\ Accumulated(tasks[t], tasks'[t].result))]_vars
    /\ [](dres # "err")
    /\ [](dpc = "done" => dres = "ok")
    /\ (STOP_SIGNAL ~> dpc = "done")

\* STOP_SIGNAL was set while a Local Scanner that had found a host was in its
\* loop, and discover returned that host
C2_Witness ==
    /\ STOP_SIGNAL /\ dpc = "done" /\ dres = "ok" /\ hosts # <<>>
    /\ \E t \in 1..Len(tasks) :
           /\ tasks[t].kind = "local" /\ tasks[t].outcome = "ok"
           /\ now < tasks[t].deadline /\ ~tasks[t].sending_finished

\* C3: with STOP_SIGNAL unset, whatever frames and segments arrive, every
\* Local Scanner and every Routed Scanner returns; the Routed Scanner's soft
\* deadline is between 200 ms and 3000 ms after it is computed.
C3_ScannersReturn ==
    /\ [](\A t \in 1..Len(tasks) :
            (tasks[t].kind = "routed" /\ tasks[t].pc \in {"top", "select"})
            => tasks[t].deadline - now <= MAX_SCAN_DURATION)
    /\ \A n \in 0..MaxTargets :
            scan_duration(n) >= MIN_SCAN_DURATION /\ scan_duration(n) <= MAX_SCAN_DURATION
    /\ \A t \in 1..MaxTasks : (TaskRunning(t) ~> ~TaskRunning(t))

\* a Local Scanner returned at its absolute deadline, a host found but its
\* probes not all sent and a target still unanswered
C3_Witness ==
    \E t \in 1..Len(tasks) :
        /\ tasks[t].kind = "local" /\ tasks[t].outcome = "ok" /\ ~STOP_SIGNAL
        /\ now >= tasks[t].deadline
        /\ ~tasks[t].sending_finished
        /\ tasks[t].result # <<>>
        /\ Cardinality(DOMAIN tasks[t].hosts_map) < SenderConfig_len(tasks[t].sender_cfg)

\* C4: in a privileged run with DNS enabled, once every scanner task has
\* finished no sender of the resolver's queue is left; the resolver then
\* returns (after its bounded drain, or it never started), discover runs the
\* Join and returns.
C4_ResolverJoined ==
    /\ []((privileged /\ ~no_dns /\ dpc \in {"await", "done"} /\ AllTasksFinished)
            => senders = {})
    /\ []((privileged /\ ~no_dns /\ dpc = "done") => resolver.pc \in {"returned", "failed"})
    /\ ((privileged /\ ~no_dns /\ dpc = "await" /\ AllTasksFinished) ~> dpc = "done")

\* discover returned after the resolver gave up its drain with a query
\* still unanswered
C4_Witness ==
    /\ privileged /\ ~no_dns /\ dpc = "done"
    /\ resolver.pc = "returned"
    /\ resolver.dns_map # EmptyMap
    /\ now >= resolver.drain_start + DRAIN_TIMEOUT

\* C5: in a privileged run discover returns Ok whatever subset of the scanner
\* tasks failed, and its result is the concatenation, in spawn order, of the
\* host lists of exactly the tasks that succeeded (the Join phase may then add
\* hostnames and addresses to those hosts, nothing else).
C5_FailedTasksSkipped ==
    (privileged /\ dpc = "done") =>
        /\ dres = "ok"
        /\ Len(hosts) = Len(OkResults)
        /\ \A i \in 1..Len(hosts) : SameFinding(hosts[i], OkResults[i])
        /\ resolver.pc # "returned" => hosts = OkResults

\* a finished privileged run in which one task failed or panicked and another
\* succeeded with a host
C5_Witness ==
    /\ privileged /\ dpc = "done" /\ hosts # <<>>
    /\ \E t \in 1..Len(tasks) : tasks[t].outcome \in {"err", "panic"}
    /\ \E t \in 1..Len(tasks) : tasks[t].outcome = "ok" /\ tasks[t].result # <<>>

\* C6: when the resolver fails to start, sends to its queue are dropped
\* without effect on the sending scanner (it keeps running and nothing is
\* queued), and discover returns Ok with exactly the hosts the scanners
\* found, every hostname unset.
C6_ResolverStartFailure ==
    /\ [](resolver.pc = "failed" =>
            /\ dns_queue = <<>>
            /\ dpc = "done" => (dres = "ok" /\ hosts = OkResults /\ HostnamesUnset))
    /\ [][resolver.pc = "failed" =>
            \A t \in 1..Len(tasks) :
                (/\ tasks[t].has_tx
                 /\ tasks[t].outcome = "running"
                 /\ \/ DOMAIN tasks'[t].hosts_map # DOMAIN tasks[t].hosts_map
                    \/ DOMAIN tasks'[t].responded_ips # DOMAIN tasks[t].responded_ips)
                => tasks'[t].outcome = "running" /\ tasks'[t].pc = "top"]_vars

\* the resolver failed to start and discover returned a host a scanner that
\* holds a sender found
C6_Witness ==
    /\ resolver.pc = "failed" /\ dpc = "done" /\ hosts # <<>>
    /\ \E t \in 1..Len(tasks) : tasks[t].has_tx /\ tasks[t].result # <<>>

\* C7: without privilege discover hands the whole target set to the
\* Handshake Prober and returns its result; the Target Router is not called,
\* no Local or Routed Scanner and no resolver exists, whatever no_dns is.
C7_UnprivilegedDelegates ==
    ~privileged =>
        /\ route_state = "idle" /\ interface_map = EmptyMap
        /\ Len(tasks) <= 1
        /\ \A t \in 1..Len(tasks) : tasks[t].kind = "handshake" /\ tasks[t].ips = targets
        /\ resolver = ResolverIdle /\ senders = {} /\ dns_queue = <<>>
        /\ dpc = "done" => (dres = "ok" /\ hosts = tasks[1].result)

\* an unprivileged run with DNS asked for returned a host
C7_Witness == ~privileged /\ ~no_dns /\ dpc = "done" /\ hosts # <<>>

\* C8: with no_dns set there is no resolver and no queue (no task holds a
\* sender), no DNS query is emitted, and every returned host has no hostname.
C8_NoDnsNoResolver ==
    no_dns =>
        /\ resolver = ResolverIdle /\ senders = {} /\ dns_queue = <<>>
        /\ \A t \in 1..Len(tasks) : ~tasks[t].has_tx
        /\ dpc = "done" => HostnamesUnset

\* a privileged run with no_dns set returned a host
C8_Witness == no_dns /\ privileged /\ dpc = "done" /\ hosts # <<>>

\* the targets whose probe produced a host, in probe order
RECURSIVE Alive(_, _)
Alive(probed, outcomes) ==
    IF outcomes = <<>> THEN <<>>
    ELSE (IF Head(outcomes) \in {"connected", "refused"} THEN <<Head(probed)>> ELSE <<>>)
         \o Alive(Tail(probed), Tail(outcomes))

\* the orders in which a collection's targets can be walked
Walks(c) == {order \o RangesInOrder(c) : order \in Orders(c.singles)}

\* C9: the Handshake Prober probes one target at a time, in the collection's
\* iteration order and all of them unless stopped; the result holds, in probe
\* order, one host for each probe that connected or was refused before the
\* 100 ms timeout, with primary_ip the target and exactly one RTT sample, and
\* nothing for a probe that timed out.
C9_HandshakeProber ==
    \A t \in 1..Len(tasks) : tasks[t].kind = "handshake" =>
        LET task == tasks[t]
            alive == Alive(task.emitted, task.outcomes)
        IN /\ Len(task.outcomes) = Len(task.emitted) - (IF task.pc = "probe" THEN 1 ELSE 0)
           /\ \E walk \in Walks(task.ips) :
                  task.emitted = SubSeq(walk, 1, Len(task.emitted))
           /\ (task.outcome = "ok" /\ ~STOP_SIGNAL) => Len(task.emitted) = IpCollection_len(task.ips)
           /\ Len(task.result) = Len(alive)
           /\ \A i \in 1..Len(task.result) :
                  /\ task.result[i].primary_ip = alive[i]
                  /\ Len(task.result[i].rtt_history) = 1
                  /\ task.result[i].rtt_history[1] < PROBE_TIMEOUT

\* a walk over three targets with a timeout between two hosts, one of them
\* from a refused connect
C9_Witness ==
    \E t \in 1..Len(tasks) :
        /\ tasks[t].kind = "handshake" /\ tasks[t].outcome = "ok"
        /\ Len(tasks[t].emitted) = 3
        /\ tasks[t].outcomes[2] = "timeout"
        /\ tasks[t].outcomes[3] = "refused"
        /\ Len(tasks[t].result) = 2

\* how often a collection holds an address: once per range that covers it and
\* once if it is a single
Occurrences(c, ip) ==
    Cardinality({i \in 1..Len(c.ranges) : Ipv4Range_contains(c.ranges[i], ip)})
    + (IF ip \in c.singles THEN 1 ELSE 0)

RECURSIVE SumOver(_, _)
SumOver(S, f) ==
    IF S = {} THEN 0
    ELSE LET x == CHOOSE y \in S : TRUE IN f[x] + SumOver(S \ {x}, f)

\* in how many buckets (local or routed of some interface, or unmapped) ip lies
BucketCount(ip) ==
    SumOver(DOMAIN interface_map,
            [idx \in DOMAIN interface_map |->
                Occurrences(interface_map[idx].local, ip)
                + Occurrences(interface_map[idx].routed, ip)])
    + Occurrences(unmapped_ips, ip)

\* C10: after the Target Router has run on a collection the Target Parser
\* produced, every target address lies in exactly one bucket (the local bucket
\* of one interface, the routed bucket of one interface, or unmapped): none
\* is lost and none is in two buckets.
C10_RouterPartition ==
    route_state = "mapped" => \A ip \in CollIps(targets) : BucketCount(ip) = 1

\* a run in which one unowned range was exploded and all three kinds of bucket
\* are in use
C10_Witness ==
    /\ route_state = "mapped"
    /\ \E i \in 1..Len(targets.ranges) :
           RangeOwner(UsableInterfaces(interfaces), targets.ranges[i]) = 0
    /\ \E idx \in DOMAIN interface_map : ~IpCollection_is_empty(interface_map[idx].local)
    /\ \E idx \in DOMAIN interface_map : ~IpCollection_is_empty(interface_map[idx].routed)
    /\ ~IpCollection_is_empty(unmapped_ips)


\* ip lies inside a subnet configured on the interface
InSubnetOf(intf, ip) ==
    \E j \in 1..Len(intf.ips) : intf.ips[j].ip.v = ip.v /\ IpNetwork_contains(intf.ips[j], ip)

\* ip lies inside a subnet of some interface the router enumerated
InSomeSubnet(ip) ==
    \E i \in 1..Len(UsableInterfaces(interfaces)) : InSubnetOf(UsableInterfaces(interfaces)[i], ip)

\* src is an address configured on the interface
AddressOf(intf, src) == \E j \in 1..Len(intf.ips) : intf.ips[j].ip = src

\* C11: the router's classification is exact: every address of an interface's
\* local bucket lies inside a subnet configured on that interface; every routed
\* address lies in no subnet of any enumerated interface and the source address
\* the kernel selected for it belongs to that interface; every unmapped address
\* lies in no such subnet and its source address, if it has one, belongs to no
\* enumerated interface. An address inside a subnet is local even when the
\* kernel would route it elsewhere.
C11_RouterExact ==
    route_state = "mapped" =>
        /\ \A idx \in DOMAIN interface_map :
              /\ \A ip \in CollIps(interface_map[idx].local) :
                    InSubnetOf(interface_map[idx].intf, ip)
              /\ \A ip \in CollIps(interface_map[idx].routed) :
                    /\ ~InSomeSubnet(ip)
                    /\ ip \in DOMAIN source_ip
                    /\ AddressOf(interface_map[idx].intf, source_ip[ip])
        /\ \A ip \in CollIps(unmapped_ips) :
              /\ ~InSomeSubnet(ip)
              /\ ip \in DOMAIN source_ip
              /\ \A i \in 1..Len(UsableInterfaces(interfaces)) :
                    ~AddressOf(UsableInterfaces(interfaces)[i], source_ip[ip])
        /\ \A ip \in CollIps(targets) :
              InSomeSubnet(ip) =>
                  \E idx \in DOMAIN interface_map : ip \in CollIps(interface_map[idx].local)

\* a run over the table with overlapping subnets with a local address both
\* interfaces' subnets hold, a routed address, an unmapped address whose source
\* is the address of an interface that is down, and one the kernel has no
\* source for
C11_Witness ==
    /\ route_state = "mapped"
    /\ interfaces = IfTableOverlap
    /\ \E idx \in DOMAIN interface_map : \E ip \in CollIps(interface_map[idx].local) :
          Cardinality({i \in 1..Len(UsableInterfaces(interfaces)) :
                          InSubnetOf(UsableInterfaces(interfaces)[i], ip)}) = 2
    /\ \E idx \in DOMAIN interface_map : ~IpCollection_is_empty(interface_map[idx].routed)
    /\ \E ip \in CollIps(unmapped_ips) : source_ip[ip] \in TableAddrs(interfaces)


\* C12: whatever add_rtt and set_rtts calls a Host has seen, in any order and
\* also after set_rtts was handed a deque longer than 10, its RTT history
\* holds at most 10 samples.
C12_HistoryCapped == Len(a_host.rtt_history) <= 10

\* a Host that was handed a deque of more than 10 samples and a sample after it
C12_Witness ==
    /\ samples = Append(Stair(11, 0), 1)
    /\ Len(a_host.rtt_history) = 10

\* the last n elements of a sequence
LastOf(q, n) == SubSeq(q, Len(q) - n + 1, Len(q))

\* C13: the RTT history is, in order, the last min(n, 10) elements of the
\* last set_rtts argument (or nothing) followed by the samples added since,
\* n being the length of that sequence: the oldest sample is the one evicted.
C13_SlidingWindow ==
    a_host.rtt_history = LastOf(samples, IF Len(samples) < 10 THEN Len(samples) ELSE 10)

\* a history that slid: more samples were added than the history holds, the
\* evicted ones differing from each other and the newest from the oldest kept
C13_Witness ==
    /\ Len(samples) = 12
    /\ samples[1] = 1 /\ samples[2] = 2 /\ samples[3] = 2 /\ samples[12] = 1
    /\ Len(a_host.rtt_history) = 10
    /\ a_host.rtt_history[1] = 2 /\ a_host.rtt_history[10] = 1

\* C14: min_rtt, max_rtt and average_rtt are None exactly when the history is
\* empty; otherwise min_rtt and max_rtt are the smallest and the largest
\* sample of the window and average_rtt is the quotient, rounded down, of the
\* sum of the window's samples by their number.
C14_RttStatistics ==
    LET w == a_host.rtt_history
        in_window(d) == \E i \in 1..Len(w) : w[i] = d
        total == DurationSum(w)
    IN /\ (min_rtt(a_host) = None) <=> (w = <<>>)
       /\ (max_rtt(a_host) = None) <=> (w = <<>>)
       /\ (average_rtt(a_host) = None) <=> (w = <<>>)
       /\ w # <<>> =>
            /\ \E d \in 0..2 : /\ min_rtt(a_host) = Some(d) /\ in_window(d)
                              /\ \A i \in 1..Len(w) : d <= w[i]
            /\ \E d \in 0..2 : /\ max_rtt(a_host) = Some(d) /\ in_window(d)
                              /\ \A i \in 1..Len(w) : w[i] <= d
            /\ \E q \in 0..2 : /\ average_rtt(a_host) = Some(q)
                              /\ q * Len(w) <= total
                              /\ total < (q + 1) * Len(w)

\* a window whose average is not a whole number and whose oldest sample is
\* neither its smallest nor the only value in it
C14_Witness ==
    /\ Len(a_host.rtt_history) = 3
    /\ a_host.rtt_history = <<2, 1, 2>>
    /\ average_rtt(a_host) = Some(1)
    /\ min_rtt(a_host) = Some(1)
    /\ max_rtt(a_host) = Some(2)


\* every Host there is: in a Local Scanner's hosts_map, in a finished task's
\* result, in discover's list
AllHosts ==
    UNION {{tasks[t].hosts_map[m] : m \in DOMAIN tasks[t].hosts_map} : t \in 1..Len(tasks)}
    \cup UNION {{tasks[t].result[i] : i \in 1..Len(tasks[t].result)} : t \in 1..Len(tasks)}
    \cup {hosts[i] : i \in 1..Len(hosts)}

\* C15: primary_ip is one of ips for every Host, wherever it is held: as
\* Host::new made it, after every upsert of the Local Scanner (the upgrade of
\* primary_ip included) and after the Join.
C15_PrimaryInIps == \A h \in AllHosts : h.primary_ip \in h.ips

\* discover returned a host whose primary_ip was upgraded by the Local Scanner
\* and whose ips the Join extended
C15_Witness ==
    /\ dpc = "done"
    /\ \E i \in 1..Len(hosts) :
          /\ hosts[i].primary_ip = V4(2)
          /\ hosts[i].ips = {V6(2), V4(2), V4(3), V6(3)}


\* some address of the host is an IPv4 address
HasIpv4(h) == \E ip \in h.ips : is_ipv4(ip)

\* the step of a Local Scanner in which a host whose primary_ip is an IPv6
\* address gains its first IPv4 address makes that address its primary_ip
UpgradedOnArrival ==
    \A t \in 1..Len(tasks) : \A m \in DOMAIN tasks[t].hosts_map :
        (/\ Len(tasks') = Len(tasks)
         /\ m \in DOMAIN tasks'[t].hosts_map
         /\ is_ipv6(tasks[t].hosts_map[m].primary_ip)
         /\ HasIpv4(tasks'[t].hosts_map[m]))
        => /\ tasks'[t].hosts_map[m].primary_ip
                \in tasks'[t].hosts_map[m].ips \ tasks[t].hosts_map[m].ips
           /\ is_ipv4(tasks'[t].hosts_map[m].primary_ip)

\* an IPv4 primary_ip of a host a Local Scanner holds is never replaced
PrimaryKept ==
    \A t \in 1..Len(tasks) : \A m \in DOMAIN tasks[t].hosts_map :
        (/\ Len(tasks') = Len(tasks)
         /\ m \in DOMAIN tasks'[t].hosts_map
         /\ is_ipv4(tasks[t].hosts_map[m].primary_ip))
        => tasks'[t].hosts_map[m].primary_ip = tasks[t].hosts_map[m].primary_ip

C17_Compacted ==
    coll_op = "compact" =>
        /\ \A i \in 1..Len(a_collection.ranges) :
              a_collection.ranges[i].start_addr <= a_collection.ranges[i].end_addr
        /\ \A i \in 1..(Len(a_collection.ranges) - 1) :
              a_collection.ranges[i + 1].start_addr >= a_collection.ranges[i].end_addr + 2
        /\ \A ip \in a_collection.singles : ~is_ipv4(ip)
        /\ CollIps(a_collection) = CollIps(raw)

\* compact() was called on a collection whose ranges were out of order, with
\* the highest address as a single next to a range that ends just below it and
\* another single that abuts the other range
C17_Witness ==
    /\ coll_op = "compact"
    /\ raw.ranges = <<Ipv4Range_new(MaxV4 - 1, MaxV4 - 1), Ipv4Range_new(0, 1)>>
    /\ raw.singles = {V4(MaxV4), V4(2), V6(3)}
    /\ a_collection.ranges = <<Ipv4Range_new(0, 2), Ipv4Range_new(MaxV4 - 1, MaxV4)>>


\* how often the iterator produced ip
TimesYielded(ip) == Cardinality({i \in 1..Len(yielded) : yielded[i] = ip})

\* C18: iterating a collection, by iter() or by into_iter(), produces every
\* address the collection contains exactly once and nothing else, also when
\* the collection was not compacted and a range covers an IPv4 single.
C18_IterationExact ==
    coll_op \in {"iter", "into_iter"} =>
        /\ \A ip \in CollIps(a_collection) : TimesYielded(ip) = 1
        /\ \A i \in 1..Len(yielded) : yielded[i] \in CollIps(a_collection)

\* the size of a range as a count of its addresses
RangeSize(r) == Cardinality(RangeIps(r))

RECURSIVE SumRangeSizes(_)
SumRangeSizes(rs) == IF rs = <<>> THEN 0 ELSE RangeSize(Head(rs)) + SumRangeSizes(Tail(rs))

\* C19: the length of every range is end - start + 1, the number of addresses
\* it iterates over, the range of all addresses included; the length of a
\* collection is the sum of its ranges' sizes plus the number of its singles;
\* len() never wraps or fails.
C19_LenExact ==
    /\ \A i \in 1..Len(a_collection.ranges) :
          /\ ~Ipv4Range_len_overflows(a_collection.ranges[i])
          /\ Ipv4Range_len(a_collection.ranges[i])
                = a_collection.ranges[i].end_addr - a_collection.ranges[i].start_addr + 1
          /\ Ipv4Range_len(a_collection.ranges[i]) = RangeSize(a_collection.ranges[i])
    /\ coll_op # "panic"
    /\ coll_op = "len" =>
          measured = SumRangeSizes(a_collection.ranges) + Cardinality(a_collection.singles)


\* the octets of an address, most significant first
OctetsOf(n) == [i \in 1..NumOctets |-> (n \div Pow(OctetBase, NumOctets - i)) % OctetBase]

\* the addresses between two addresses, both included
Between(a, b) == {V4(x) : x \in (IF a <= b THEN a ELSE b)..(IF a <= b THEN b ELSE a)}

\* the addresses of the LAN network: those that agree with the interface
\* address in the first `prefix` bits
LanBlock ==
    {y \in 0..(Pow(OctetBase, NumOctets) - 1) :
        \A i \in 1..lan_network.prefix : OctetsOf(y)[i] = OctetsOf(lan_network.ip)[i]}

\* the lowest and the highest of a set of numbers
Lowest(S) == CHOOSE x \in S : \A y \in S : x <= y
Highest(S) == CHOOSE x \in S : \A y \in S : x >= y

\* what the lan keyword denotes: the LAN network without its first (network)
\* and last (broadcast) address, or all of it when it has no more than two
LanUsable ==
    IF Cardinality(LanBlock) > 2
    THEN {V4(y) : y \in LanBlock \ {Lowest(LanBlock), Highest(LanBlock)}}
    ELSE {V4(y) : y \in LanBlock}

\* the addresses a well-formed token denotes: the address itself; the range
\* from A to B, where a short B of k octets stands for A with its last k octets
\* replaced by them; the block of the addresses that agree with A in the
\* first `prefix` bits
Denotes(tok) ==
    IF tok.word # "" THEN LanUsable
    ELSE IF tok.v6 # NoIp THEN {tok.v6}
    ELSE IF tok.sep = "" THEN {V4(FromOctets(tok.head))}
    ELSE IF tok.sep = "-"
    THEN LET a == FromOctets(tok.head)
             k == Len(tok.tail)
             b == a - (a % Pow(OctetBase, k)) + FromOctets(tok.tail)
         IN Between(a, b)
    ELSE {V4(x) : x \in {y \in 0..(Pow(OctetBase, NumOctets) - 1) :
                            \A i \in 1..tok.tail[1] :
                                OctetsOf(y)[i] = OctetsOf(FromOctets(tok.head))[i]}}

\* all tokens of the input strings
InputTokens == UNION {{inputs[i][j] : j \in 1..Len(inputs[i])} : i \in 1..Len(inputs)}

\* C20: the collection to_collection returns contains exactly the addresses
\* its tokens denote, and its len() is the number of distinct addresses among
\* them.
C20_ParserExact ==
    /\ coll_op # "panic"
    /\ coll_op = "parsed" =>
          /\ CollIps(a_collection) = UNION {Denotes(t) : t \in InputTokens}
          /\ \A ip \in AllIps :
                IpCollection_contains(a_collection, ip)
                    <=> ip \in UNION {Denotes(t) : t \in InputTokens}
          /\ measured = Cardinality(UNION {Denotes(t) : t \in InputTokens})


\* a token has one of the target forms: an IPv6 address, an IPv4 address, a
\* range A-B with B an address or its last octets, a block A/prefix, the lan keyword
MatchesForm(tok) ==
    \/ tok.v6 # NoIp
    \/ tok.word \in {"lan", "LAN", "Lan"}
    \/ /\ tok.word = ""
       /\ tok.v6 = NoIp
       /\ Len(tok.head) = NumOctets
       /\ \A i \in 1..NumOctets : tok.head[i] < OctetBase
       /\ \/ tok.sep = ""
          \/ /\ tok.sep = "-"
             /\ Len(tok.tail) \in 1..NumOctets
             /\ \A i \in 1..Len(tok.tail) : tok.tail[i] < OctetBase
          \/ /\ tok.sep = "/"
             /\ Len(tok.tail) = 1
             /\ tok.tail[1] <= PrefixBits

\* a token is the reserved keyword
IsVpn(tok) == tok.word \in {"vpn", "VPN"}

\* C21: when a token of the input matches no target form or is the keyword
\* vpn, or when the input holds no token at all, to_collection returns an
\* error and no collection, whatever the other tokens are.
C21_InvalidTokenFails ==
    (/\ coll_op # "new"
     /\ \/ \E t \in InputTokens : ~MatchesForm(t) \/ IsVpn(t)
        \/ InputTokens = {})
    => /\ coll_op = "err"
       /\ a_collection = IpCollection_new
       /\ raw = IpCollection_new


\* the lan keyword, in any case
IsLan(tok) == tok.word \in {"lan", "LAN", "Lan"}

\* C22: for the lan keyword on a LAN network with prefix p, the range added is
\* network+1 .. broadcast-1 when p leaves at least two host bits (p <= 30 in
\* the program, PrefixBits - 2 here), exactly two addresses when it leaves
\* exactly two; with one host bit or none (/31, /32) it is network .. broadcast.
C22_LanRange ==
    (/\ coll_op = "parsed"
     /\ \E t \in InputTokens : IsLan(t))
    => LET net == Lowest(LanBlock)
           bc == Highest(LanBlock)
           p == lan_network.prefix
           added == IF p <= PrefixBits - 2
                    THEN [start_addr |-> net + 1, end_addr |-> bc - 1]
                    ELSE [start_addr |-> net, end_addr |-> bc]
       IN /\ lan_network.found = "some"
          /\ \E i \in 1..Len(raw.ranges) : raw.ranges[i] = added
          /\ (\A t \in InputTokens : IsLan(t)) =>
                /\ \A i \in 1..Len(raw.ranges) : raw.ranges[i] = added
                /\ a_collection = [ranges |-> <<added>>, singles |-> {}]
                /\ p = PrefixBits - 2 => measured = 2
                /\ p <= PrefixBits - 2 => measured = Pow(2, PrefixBits - p) - 2
                /\ p > PrefixBits - 2 => measured = Pow(2, PrefixBits - p)

\* lan alone was parsed on a network with two host bits (a /30): the two
\* addresses between its network and broadcast address
C22_Witness ==
    /\ coll_op = "parsed"
    /\ inputs = <<<<TokWord("lan")>>>>
    /\ lan_network = [found |-> "some", ip |-> 5, prefix |-> PrefixBits - 2]
    /\ a_collection.ranges = <<[start_addr |-> 5, end_addr |-> 6]>>
    /\ measured = 2

\* C23: once to_collection has handled a lan token the flag IS_LAN_SCAN is
\* set, for every size of the LAN network, and it is set by nothing else.
C23_LanFlagSet ==
    coll_op # "new" =>
        /\ (coll_op = "parsed" /\ \E t \in InputTokens : IsLan(t)) => IS_LAN_SCAN
        /\ IS_LAN_SCAN => \E t \in InputTokens : IsLan(t)


\* C24: is_expired() answers true exactly when the instant is past the hard
\* deadline, or past min_runtime with at least max_silence gone since the
\* timer was made or last marked. So it is never expired at or before both
\* min_runtime and the hard deadline, always expired past the hard deadline,
\* and not expired less than max_silence after a mark_seen unless past the
\* hard deadline.
C24_IsExpired ==
    timer_log.op = "is_expired" =>
        LET t == timer_log.asked
            hard_deadline == timer_log.made + timer_log.total
            min_runtime == timer_log.made + timer_log.min
            silent_for == t - timer_log.seen
        IN /\ timer_log.expired <=>
                 (t > hard_deadline \/ (t > min_runtime /\ silent_for >= timer_log.silence))
           /\ (t <= min_runtime /\ t <= hard_deadline) => ~timer_log.expired
           /\ t > hard_deadline => timer_log.expired
           /\ (t < timer_log.seen + timer_log.silence /\ t <= hard_deadline)
                 => ~timer_log.expired

\* a timer marked after min_runtime answers "expired" one silence later,
\* before its hard deadline
C24_Witness ==
    /\ timer_log.op = "is_expired"
    /\ timer_log.expired
    /\ timer_log.seen > timer_log.made + timer_log.min
    /\ timer_log.silence > 0
    /\ timer_log.asked = timer_log.seen + timer_log.silence
    /\ timer_log.asked <= timer_log.made + timer_log.total


\* what an accepted frame f does to the host table of Local Scanner 1: its
\* source MAC is a key afterwards and no other entry changes; a MAC that was
\* no key gets a host with that mac, one increment and one mark of the timer;
\* a MAC that was a key keeps its host, which gains at most the frame's
\* address and one RTT sample, with no increment and no mark
UpsertedByMac(f) ==
    LET m == f.src_mac
        old == tasks[1].hosts_map
        new == tasks'[1].hosts_map
    IN /\ DOMAIN new = DOMAIN old \cup {m}
       /\ new[m].mac = m
       /\ \A k \in DOMAIN old \ {m} : new[k] = old[k]
       /\ IF m \notin DOMAIN old
          THEN /\ FOUND_HOST_COUNT' = FOUND_HOST_COUNT + 1
               /\ tasks'[1].timer.last_seen = now
               /\ f.src_ip \in new[m].ips
          ELSE /\ FOUND_HOST_COUNT' = FOUND_HOST_COUNT
               /\ tasks'[1].timer = tasks[1].timer
               /\ new[m].hostname = old[m].hostname
               /\ new[m].ips = old[m].ips \cup {f.src_ip}
               /\ \/ new[m].rtt_history = old[m].rtt_history
                  \/ \E rtt \in {0, now} :
                        new[m].rtt_history = add_rtt(old[m], rtt).rtt_history

\* C25: the Local Scanner keeps one host per source MAC of the frames it
\* accepted, with that MAC in its mac field; FOUND_HOST_COUNT is the number
\* of these MACs, incremented with the timer marked at the first accepted
\* frame of each; later frames of a MAC only add addresses and RTT samples;
\* the scanner returns one host per MAC.
C25_UpsertByMac ==
    /\ [](/\ \A m \in DOMAIN tasks[1].hosts_map : tasks[1].hosts_map[m].mac = m
          /\ FOUND_HOST_COUNT = Cardinality(DOMAIN tasks[1].hosts_map)
          /\ tasks[1].outcome = "ok" =>
                /\ Len(tasks[1].result) = Cardinality(DOMAIN tasks[1].hosts_map)
                /\ \A m \in DOMAIN tasks[1].hosts_map :
                      \E i \in 1..Len(tasks[1].result) :
                          tasks[1].result[i] = tasks[1].hosts_map[m])
    /\ [][\A f \in LocalFrames :
            (LocalRecv(1, f) /\ ~FrameDropped(tasks[1], f)) => UpsertedByMac(f)]_vars
    /\ [][tasks'[1].timer.last_seen # tasks[1].timer.last_seen =>
            \/ tasks[1].pc = "spawned"
            \/ DOMAIN tasks'[1].hosts_map # DOMAIN tasks[1].hosts_map]_vars

\* two neighbours were found, the first one over ARP and then again over
\* IPv6 after the clock moved: two hosts, two increments, the first host with
\* both addresses, and the scanner returned them
C25_Witness ==
    /\ tasks[1].outcome = "ok"
    /\ Len(tasks[1].result) = 2
    /\ FOUND_HOST_COUNT = 2
    /\ tasks[1].hosts_map["ma"].ips = {V4(2), V6(2)}
    /\ tasks[1].hosts_map["ma"].primary_ip = V4(2)
    /\ tasks[1].hosts_map["mb"].ips = {V4(3)}
    /\ tasks[1].timer.last_seen = TickMs


\* C26: every host a scanner holds or returns, and every host discover
\* returns, has an address of the requested target collection among its ips:
\* a frame, segment or connection from an address that is no target makes no
\* host.
C26_HostsAreTargets ==
    \A h \in AllHosts : \E ip \in h.ips : IpCollection_contains(targets, ip)

\* the termination condition as the loop check is described: emission
\* exhausted and the timer expired, or the stop flag, or as many hosts as
\* targets
StopsAtLoopCheck(task) ==
    \/ task.sending_finished /\ is_expired(task.timer, now)
    \/ STOP_SIGNAL
    \/ Cardinality(DOMAIN task.hosts_map) >= SenderConfig_len(task.sender_cfg)

\* C27: a loop check of the Local Scanner ends the scan exactly when emission
\* is exhausted and the timer is expired, or STOP_SIGNAL is set, or there are
\* as many hosts as targets (also while probes remain unsent); the absolute
\* deadline ends it from the select; and the scanner returns every host it
\* collected.
C27_LoopTermination ==
    /\ [][LocalLoopTop(1) =>
            ((tasks'[1].pc = "done") <=> StopsAtLoopCheck(tasks[1]))]_vars
    /\ [][LocalDeadline(1) => tasks'[1].outcome = "ok"]_vars
    /\ [](tasks[1].outcome = "ok" =>
            \A m \in DOMAIN tasks[1].hosts_map :
                \E i \in 1..Len(tasks[1].result) :
                    tasks[1].result[i] = tasks[1].hosts_map[m])

\* a Local Scanner waits in its select with emission exhausted and its timer
\* expired, before the absolute deadline
WaitsThoughExpired(t) ==
    /\ Running(t) /\ tasks[t].kind = "local" /\ tasks[t].pc = "select"
    /\ tasks[t].sending_finished
    /\ is_expired(tasks[t].timer, now)
    /\ now < tasks[t].deadline

\* C28: once emission is exhausted and the minimum runtime has passed, the
\* Local Scanner returns as soon as the silence limit is reached, without a
\* further frame and without waiting for the absolute deadline: no time
\* passes while it waits in its select with the timer expired.
C28_SilenceEndsWait ==
    [][\A t \in 1..Len(tasks) : WaitsThoughExpired(t) => now' = now]_vars

\* C29: on a scan that is not LAN-wide, an IPv6 frame from a MAC that is not
\* in the host table changes nothing (no host, no increment, rtt_map, timer
\* and resolver queue untouched), and an IPv6 frame of the subnet from a known
\* MAC adds its address to that host and makes no new one.
C29_Ipv6Strangers ==
    [][\A f \in LocalFrames :
         (LocalRecv(1, f) /\ ~IS_LAN_SCAN /\ is_ipv6(get_ip_addr_from_eth(f))
                          /\ is_addr_in_subnet(tasks[1].sender_cfg, f.src_ip)) =>
            IF f.src_mac \notin DOMAIN tasks[1].hosts_map
            THEN /\ tasks'[1] = [tasks[1] EXCEPT !.pc = "top"]
                 /\ FOUND_HOST_COUNT' = FOUND_HOST_COUNT
                 /\ dns_queue' = dns_queue
            ELSE /\ DOMAIN tasks'[1].hosts_map = DOMAIN tasks[1].hosts_map
                 /\ tasks'[1].hosts_map[f.src_mac].ips =
                       tasks[1].hosts_map[f.src_mac].ips \cup {f.src_ip}
                 /\ tasks'[1].hosts_map[f.src_mac].primary_ip =
                       tasks[1].hosts_map[f.src_mac].primary_ip
                 /\ FOUND_HOST_COUNT' = FOUND_HOST_COUNT]_vars

\* on a scan that is not LAN-wide the neighbour found over ARP was seen over
\* IPv6 as well: one host with both addresses, the second one sent to the
\* resolver
C29_Witness ==
    /\ ~IS_LAN_SCAN
    /\ DOMAIN tasks[1].hosts_map = {"ma"}
    /\ tasks[1].hosts_map["ma"].ips = {V4(2), V6(2)}
    /\ FOUND_HOST_COUNT = 1
    /\ dns_queue = <<V4(2), V6(2)>>

\* the samples of the host of a MAC, none when there is no such host
SamplesOf(hosts_map, mac) ==
    IF mac \in DOMAIN hosts_map THEN hosts_map[mac].rtt_history ELSE <<>>

\* the history after one more sample
WithSample(history, rtt) ==
    IF Len(history) < RTT_HISTORY_CAP THEN Append(history, rtt)
    ELSE Append(Tail(history), rtt)

\* what a frame that is not dropped does to rtt_map and to the samples of
\* its host: an ARP frame takes the entry of its sender address away and
\* yields one sample if there is one, and none otherwise; an IPv6 frame
\* leaves rtt_map alone and yields a sample whenever it is addressed to a
\* link-local address that has an entry
SampledOnce(f) ==
    LET before == SamplesOf(tasks[1].hosts_map, f.src_mac)
        after == SamplesOf(tasks'[1].hosts_map, f.src_mac)
        rtt_map == tasks[1].rtt_map
    IN /\ f.src_mac \in DOMAIN tasks'[1].hosts_map
       /\ IF f.ethertype = "Arp"
          THEN IF f.src_ip \in DOMAIN rtt_map
               THEN /\ after = WithSample(before, now - rtt_map[f.src_ip])
                    /\ tasks'[1].rtt_map = Remove(rtt_map, f.src_ip)
               ELSE /\ after = before
                    /\ tasks'[1].rtt_map = rtt_map
          ELSE /\ tasks'[1].rtt_map = rtt_map
               /\ IF f.ethertype = "Ipv6" /\ is_unicast_link_local(f.dst_ip)
                                          /\ f.dst_ip \in DOMAIN rtt_map
                  THEN after = WithSample(before, now - rtt_map[f.dst_ip])
                  ELSE after = before

\* C30: an ARP probe's rtt_map entry is consumed by the first ARP frame from
\* its address, so every ARP probe gives at most one sample and a later ARP
\* frame from that address gives none while its host is still upserted; the
\* ICMPv6 probe's entry stays, so every IPv6 frame addressed to the probing
\* link-local address gives a sample. On a scan without the ICMPv6 probe the
\* samples and the open entries together are the probes sent.
C30_RttEntries ==
    /\ [][\A f \in LocalFrames :
            (LocalRecv(1, f) /\ ~FrameDropped(tasks[1], f)) => SampledOnce(f)]_vars
    /\ [](/\ \A ip \in DOMAIN tasks[1].rtt_map : \E i \in 1..Len(tasks[1].emitted) :
                tasks[1].emitted[i] = ip
          /\ ~IS_LAN_SCAN =>
                LET sampled == {m \in DOMAIN tasks[1].hosts_map :
                                   tasks[1].hosts_map[m].rtt_history # <<>>}
                IN /\ \A m \in sampled : Len(tasks[1].hosts_map[m].rtt_history) = 1
                   /\ Cardinality(sampled) + Cardinality(DOMAIN tasks[1].rtt_map)
                         = Len(tasks[1].emitted))
    /\ [](IS_LAN_SCAN /\ tasks[1].icmp_left = {} /\ tasks[1].pc \in {"top", "select"} =>
            get_link_local(tasks[1].sender_cfg) \in DOMAIN tasks[1].rtt_map)

\* on a LAN-wide scan the neighbour answered over ARP once and over IPv6
\* three times: four samples, the ARP entry gone, the ICMPv6 entry in place
C30_Witness ==
    /\ IS_LAN_SCAN
    /\ "ma" \in DOMAIN tasks[1].hosts_map
    /\ Len(tasks[1].hosts_map["ma"].rtt_history) = 4
    /\ tasks[1].hosts_map["ma"].ips = {V4(2), V6(2)}
    /\ V4(2) \notin DOMAIN tasks[1].rtt_map
    /\ V6(1) \in DOMAIN tasks[1].rtt_map
    /\ tasks[1].arp_left = {}

\* C31: only an ARP reply gives a sample and consumes the rtt_map entry: an
\* ARP request from a probed address leaves rtt_map and the samples of its
\* host as they were.
C31_RepliesOnly ==
    [][\A f \in LocalFrames :
         (LocalRecv(1, f) /\ f.ethertype = "Arp" /\ f.op # "reply") =>
            /\ tasks'[1].rtt_map = tasks[1].rtt_map
            /\ SamplesOf(tasks'[1].hosts_map, f.src_mac)
                  = SamplesOf(tasks[1].hosts_map, f.src_mac)]_vars

\* every frame handed to the raw sender comes after the rtt_map insert of
\* its key
RecordedBeforeSent(log) ==
    \A i \in 1..Len(log) :
        log[i].op = "send" => \E j \in 1..(i - 1) : log[j] = Inserted(log[i].key)

\* the probes went out in the order of the probe source: for the Local
\* Scanner the ARP probes and then the ICMPv6 one, for the Routed Scanner the
\* addresses of the ranges in walk order and then the singles, none twice
InSourceOrder(task) ==
    LET e == task.emitted
        walk == RangesInOrder(task.ips)
        InRanges(ip) == \E k \in 1..Len(walk) : walk[k] = ip
    IN \A i, j \in 1..Len(e) : i < j =>
          /\ e[i] # e[j]
          /\ IF task.kind = "local"
             THEN is_ipv4(e[j]) => is_ipv4(e[i])
             ELSE /\ InRanges(e[j]) => InRanges(e[i])
                  /\ InRanges(e[j]) =>
                        \E a, b \in 1..Len(walk) : a < b /\ walk[a] = e[i] /\ walk[b] = e[j]

\* C32: in the Local and the Routed Scanner the probes are emitted in the
\* probe source's iteration order, and the rtt_map entry of a probe is
\* inserted before the probe is handed to the raw sender.
C32_InsertBeforeSend ==
    \A t \in 1..Len(tasks) : tasks[t].kind \in {"local", "routed"} =>
        /\ InSourceOrder(tasks[t])
        /\ RecordedBeforeSent(tasks[t].io_log)

\* the segment answers the SYN this task sent to its source address: its
\* acknowledgement number minus one is the sequence number of that SYN
AnswersProbe(task, seg) ==
    /\ seg.parsed
    /\ IpCollection_contains(task.ips, seg.ip)
    /\ \E i \in 1..Len(task.io_log) :
          task.io_log[i] = Sent(<<seg.ip, wrapping_sub1(seg.ack)>>)

\* the samples collected for an address, none when it has not responded
LatenciesOf(task, ip) ==
    IF ip \in DOMAIN task.responded_ips THEN task.responded_ips[ip] ELSE <<>>

\* C33: in the Routed Scanner every segment from a target that acknowledges
\* the SYN sent to it appends one RTT sample to that host, so that several
\* responses to one probe are all appended, in arrival order.
C33_EveryResponseSampled ==
    [][\A t \in 1..Len(tasks) : \A seg \in ScanSegments :
         (RoutedRecv(t, seg) /\ AnswersProbe(tasks[t], seg)) =>
            /\ Len(LatenciesOf(tasks'[t], seg.ip)) = Len(LatenciesOf(tasks[t], seg.ip)) + 1
            /\ SubSeq(LatenciesOf(tasks'[t], seg.ip), 1, Len(LatenciesOf(tasks[t], seg.ip)))
                  = LatenciesOf(tasks[t], seg.ip)]_vars

C35_TransIdsDistinct ==
    /\ [][resolver'.id_counter \in
            {resolver.id_counter, (resolver.id_counter + 1) % TransIdSpace}]_vars
    /\ [][\A id \in DOMAIN resolver.dns_map \cap DOMAIN resolver'.dns_map :
            resolver'.dns_map[id] = resolver.dns_map[id]]_vars
    /\ [](\A ip \in DOMAIN resolver.hostname_map : resolver.hostname_map[ip] = NameOf(ip))

\* the first PTR name of the records that does not end in .arpa, NoName when
\* there is none
RECURSIVE FirstHostname(_)
FirstHostname(rrs) ==
    IF rrs = <<>> THEN NoName
    ELSE IF Head(rrs).type = "PTR" /\ ~ends_with_arpa(Head(rrs).name) THEN Head(rrs).name
    ELSE FirstHostname(Tail(rrs))

\* C36: the hostname of an mDNS record is the first PTR name of the response
\* (answers, then additionals) that does not end in .arpa; a later PTR name
\* does not replace it.
C36_FirstPtrName ==
    [][\A pkt \in {TwoNames} :
         ResolverUdp(pkt) =>
            \A ip \in DOMAIN resolver'.mdns_cache :
               (ip \notin DOMAIN resolver.mdns_cache
                  \/ resolver'.mdns_cache[ip] # resolver.mdns_cache[ip])
               => resolver'.mdns_cache[ip].hostname = FirstHostname(pkt.rrs)]_vars

\* discover runs the Join on the hosts it collected
JoinStep == dpc = "await" /\ dpc' = "done" /\ resolver.pc = "returned"

\* the hosts that held the address when the Join started and have the name
\* after it
NamedBy(ip, name) ==
    {i \in 1..Len(hosts) : ip \in hosts[i].ips /\ hosts[i].hostname = NoName
                           /\ hosts'[i].hostname = name}

\* C37: the Join changes no hostname that is set and removes no address; a
\* host's hostname comes from the DNS names and mDNS records of the addresses
\* it had when the Join started, its new addresses from those mDNS records;
\* and each DNS name and each mDNS record goes to at most one host, the
\* record to one if some host has its key.
C37_JoinFrame ==
    [][JoinStep =>
        /\ Len(hosts') = Len(hosts)
        /\ \A i \in 1..Len(hosts) :
             LET h == hosts[i]
                 joined == hosts'[i]
                 dns_keys == h.ips \cap DOMAIN resolver.hostname_map
                 mdns_keys == h.ips \cap DOMAIN resolver.mdns_cache
             IN /\ joined.primary_ip = h.primary_ip
                /\ joined.mac = h.mac
                /\ joined.rtt_history = h.rtt_history
                /\ h.ips \subseteq joined.ips
                /\ joined.ips \subseteq
                      h.ips \cup UNION {resolver.mdns_cache[ip].ips : ip \in mdns_keys}
                /\ h.hostname # NoName => joined.hostname = h.hostname
                /\ joined.hostname \in
                      {h.hostname} \cup {resolver.hostname_map[ip] : ip \in dns_keys}
                         \cup {resolver.mdns_cache[ip].hostname : ip \in mdns_keys}
                /\ (dns_keys # {} \/ \E ip \in mdns_keys :
                                        resolver.mdns_cache[ip].hostname # NoName)
                      => \E k \in 1..Len(hosts) : hosts'[k].hostname # NoName
        /\ \A ip \in DOMAIN resolver.hostname_map :
             Cardinality(NamedBy(ip, resolver.hostname_map[ip])) <= 1
        /\ \A ip \in DOMAIN resolver.mdns_cache :
             /\ resolver.mdns_cache[ip].hostname # NoName =>
                   Cardinality(NamedBy(ip, resolver.mdns_cache[ip].hostname)) <= 1
             /\ (\E i \in 1..Len(hosts) : ip \in hosts[i].ips) =>
                   \E i \in 1..Len(hosts) :
                      ip \in hosts[i].ips /\ resolver.mdns_cache[ip].ips \subseteq hosts'[i].ips]_vars

\* discover returned two hosts that share an address for which the resolver
\* held a name: one of them has the name, the other has none
C37_Witness ==
    /\ dpc = "done" /\ resolver.pc = "returned"
    /\ Len(hosts) = 2
    /\ hosts[1].ips \cap hosts[2].ips # {}
    /\ \E i, k \in 1..2 : hosts[i].hostname # NoName /\ hosts[k].hostname = NoName
    /\ resolver.hostname_map # EmptyMap \/ resolver.mdns_cache # EmptyMap

\* the input queue is closed and nothing is left in it
QueueClosedAndConsumed == dns_queue = <<>> /\ senders = {}

DrainExpired == now >= resolver.drain_start + DRAIN_TIMEOUT

\* C38: run returns only once its input queue is closed and consumed; it
\* leaves the select loop straight into the return when no query is
\* outstanding and into the drain otherwise; the drain handles datagrams
\* until dns_map is empty or 250 ms have passed, handles none after that,
\* and run does return.
C38_RunReturns ==
    /\ [][(resolver.pc = "run" /\ resolver'.pc # "run") =>
             /\ QueueClosedAndConsumed
             /\ resolver'.pc = (IF resolver.dns_map = EmptyMap THEN "returned" ELSE "drain")
             /\ resolver'.dns_map = resolver.dns_map
             /\ resolver'.hostname_map = resolver.hostname_map
             /\ resolver'.mdns_cache = resolver.mdns_cache
             /\ resolver'.pc = "drain" => resolver'.drain_start = now]_vars
    /\ [](resolver.pc = "drain" => QueueClosedAndConsumed /\ resolver.dns_map # EmptyMap)
    /\ [][(resolver.pc = "drain" /\ resolver' # resolver) =>
             IF DrainExpired
             THEN resolver' = [resolver EXCEPT !.pc = "returned"]
             ELSE resolver'.pc = (IF resolver'.dns_map = EmptyMap THEN "returned" ELSE "drain")]_vars
    /\ [][resolver.pc = "returned" => resolver' = resolver]_vars
    /\ (resolver.pc \in {"run", "drain"} /\ senders = {}) ~> (resolver.pc = "returned")

\* run returned from the drain at its timeout, a query still outstanding
C38_Witness ==
    /\ resolver.pc = "returned"
    /\ resolver.dns_map # EmptyMap
    /\ resolver.drain_start > 0
    /\ DrainExpired
    /\ QueueClosedAndConsumed

\* the hosts a scanner task has observed so far
ObservedBy(task) ==
    IF task.kind = "local" THEN Cardinality(DOMAIN task.hosts_map)
    ELSE IF task.kind = "routed" THEN Cardinality(DOMAIN task.responded_ips)
    ELSE Len(task.result)

RECURSIVE ObservedByAll(_)
ObservedByAll(ts) ==
    IF ts = <<>> THEN 0 ELSE ObservedBy(Head(ts)) + ObservedByAll(Tail(ts))

EveryScannerOk == \A t \in 1..Len(tasks) : tasks[t].outcome = "ok"

\* C39: FOUND_HOST_COUNT never decreases; at every moment it is the number
\* of hosts the scanner tasks have observed, whatever the order of their
\* steps; and when discover has returned and every scanner task returned Ok
\* it is the length of the list discover returned.
C39_HostCount ==
    /\ [][FOUND_HOST_COUNT' >= FOUND_HOST_COUNT]_vars
    /\ [](FOUND_HOST_COUNT = ObservedByAll(tasks))
    /\ []((dpc = "done" /\ dres = "ok" /\ EveryScannerOk) => FOUND_HOST_COUNT = Len(hosts))

\* discover returned the hosts of two scanner tasks that both found some
C39_Witness ==
    /\ dpc = "done" /\ dres = "ok" /\ EveryScannerOk
    /\ \E t, u \in 1..Len(tasks) : t # u /\ tasks[t].result # <<>> /\ tasks[u].result # <<>>
    /\ FOUND_HOST_COUNT = Len(hosts)

\* C40: contains(ip) answers the same for every address before and after
\* compact(), and a compact() of a collection that was just compacted
\* changes neither its ranges nor its singles.
C40_CompactKeepsContains ==
    /\ coll_op \in {"compact", "compact_again"} =>
          \A ip \in AllIps : IpCollection_contains(a_collection, ip) = IpCollection_contains(raw, ip)
    /\ coll_op = "compact_again" => a_collection = raw

\* compact() ran a second time, on two merged ranges and an IPv6 single
C40_Witness ==
    /\ coll_op = "compact_again"
    /\ a_collection.ranges = <<Ipv4Range_new(0, 2), Ipv4Range_new(MaxV4 - 1, MaxV4)>>
    /\ a_collection.singles = {V6(3)}
    /\ IpCollection_contains(a_collection, V4(1))
    /\ ~IpCollection_contains(a_collection, V4(3))

=============================================================================
